---- MODULE Spec2Model ----
(***************************************************************************)
(* Leaderboard aggregation and caching engine of select-start-api.         *)
(*                                                                         *)
(* The repository holds drafts of one Express server (the file that names  *)
(* itself standalone-api.js and its "completely revised" successor) and a  *)
(* set of serverless handlers.  A process runs one of them; the variable   *)
(* `build` says which.  Spec is the server of part_001, SpecRevised the    *)
(* revised server of part_000, both restarted over the snapshots of an     *)
(* earlier run; SpecBoot starts the server over every content of the cache *)
(* directory, SpecSilent lets the store stop answering, SpecHealth adds    *)
(* the health route, and SpecMonthly, SpecYearly and SpecNominations       *)
(* compute one report from the documents of the store; SpecTime renders    *)
(* the time that remains of a challenge.  SpecMonthlyKeys computes the     *)
(* monthly board over records of several periods, SpecCarrd the report of  *)
(* api/nominations.js, SpecPeriod and SpecEnding the window and the time   *)
(* remaining of the current period; SpecYearCache is the yearly route with *)
(* its year, SpecRestart adds restarts of the process and SpecRehydrate    *)
(* starts it at any instant.                                               *)
(* Time is the wall clock of `new Date()` in milliseconds, read at the     *)
(* instants Instant(0..MaxClock).                                          *)
(***************************************************************************)
EXTENDS Integers, Sequences, FiniteSets, Bags, TLC

(* ------------------------------ bounds -------------------------------- *)
MaxClock == 3          \* the clock is read at the instants 0..MaxClock
MaxReq == 2            \* report handlers that can be suspended together
MaxServed == 3         \* requests the process accepts in one run
MaxBoot == 1           \* requests followed after a start from arbitrary snapshots

(* ----------------------------- constants ------------------------------ *)
MinuteMs == 60 * 1000

\* the instants at which the wall clock is read, in minutes from process
\* start: every freshness window (10, 15, 30 minutes) ends at one of them
Instant(i) ==
    CASE i = 0 -> 0
      [] i = 1 -> 10
      [] i = 2 -> 15
      [] OTHER -> 15 * (i - 1)

Types == {"monthly", "yearly", "nominations"}
Servers == {"part_000", "part_001"}
Builds == Servers \cup {"serverless"}
Targets == {"all", "leaderboards", "nominations"}
BodyTargets == Targets \cup {"none", "monthly"}

API_KEY == "dev-key"
ADMIN_API_KEY == "admin-key"
Keys == {"none", "dev-key", "admin-key"}

NullDate == -1         \* lastUpdated: null
InvalidDate == -2      \* new Date(undefined): an Invalid Date, NaN in arithmetic

VARIABLES build, clock, cache, disk, req, resp, served, inval, input, output,
          store

vars == <<build, clock, cache, disk, req, resp, served, inval, input, output,
          store>>

\* what one computation of a report reads (the documents the store returned,
\* the query of the request) and what it comes to; the server specifications
\* follow requests and leave the documents out
calc == <<input, output>>

\* the store (the MongoDB connection the models query): "up" while it settles
\* every query, with a result or with an error; "silent" once a query is
\* left pending for good
StoreStates == {"up", "silent"}

NoInput == [kind |-> "none"]
NoOutput == [status |-> 0]

\* new Date()
Now == Instant(clock) * MinuteMs

(* ------------------------------ payloads ------------------------------ *)
NullData == [kind |-> "null", stamp |-> NullDate]

\* data = { ..., lastUpdated: new Date().toISOString() }
Payload(t, now) == [kind |-> t, stamp |-> now]

EmptyEntry == [data |-> NullData, lastUpdated |-> NullDate]

(* --------------------------- durable snapshot -------------------------- *)
\* a snapshot file: absent, unparseable, parseable but without a lastUpdated
\* field, or the JSON text of a payload
NoFile == [state |-> "missing", data |-> NullData]
BadFile == [state |-> "corrupt", data |-> NullData]
File(p) == [state |-> "ok", data |-> p]
Unstamped(t) == [kind |-> t, stamp |-> InvalidDate]

\* new Date(cache.x.data.lastUpdated)
ParseDate(p) == p.stamp

LoadOrder == <<"monthly", "yearly", "nominations">>

\* the three "if (fs.existsSync(path)) { ... }" blocks inside one try: a throw
\* in one block skips the blocks after it
RECURSIVE LoadFromDisk(_, _, _)

\* lastUpdated taken from the clock of the starting process
LoadFromDisk_StampsStart(order, d, c) ==
    IF order = <<>> THEN c
    ELSE LET t == Head(order) IN
         IF d[t].state = "missing" THEN LoadFromDisk(Tail(order), d, c)
         ELSE IF d[t].state = "corrupt" THEN c
         ELSE LoadFromDisk(Tail(order), d,
                  [c EXCEPT ![t] = [data |-> d[t].data, lastUpdated |-> Now]])

\* the payload assigned although the block threw
LoadFromDisk_AssignsThenThrows(order, d, c) ==
    IF order = <<>> THEN c
    ELSE LET t == Head(order) IN
         IF d[t].state = "missing" THEN LoadFromDisk(Tail(order), d, c)
         ELSE IF d[t].state = "corrupt" THEN [c EXCEPT ![t].data = Unstamped(t)]
         ELSE LoadFromDisk(Tail(order), d,
                  [c EXCEPT ![t] = [data |-> d[t].data,
                                    lastUpdated |-> ParseDate(d[t].data)]])

LoadFromDisk(order, d, c) ==
    IF order = <<>> THEN c
    ELSE LET t == Head(order) IN
         IF d[t].state = "missing" THEN LoadFromDisk(Tail(order), d, c)
         ELSE IF d[t].state = "corrupt" THEN c
         ELSE LoadFromDisk(Tail(order), d,
                  [c EXCEPT ![t] = [data |-> d[t].data,
                                    lastUpdated |-> ParseDate(d[t].data)]])

(* ------------------------------ freshness ----------------------------- *)
ThresholdMs(t) ==
    CASE t = "monthly" -> 15 * 60 * 1000
      [] t = "yearly" -> 30 * 60 * 1000
      [] t = "nominations" -> 10 * 60 * 1000

\* the comparison turned around
IsFresh_Inverted(e, t, now) ==
    /\ e.data # NullData
    /\ e.lastUpdated # NullDate
    /\ e.lastUpdated # InvalidDate
    /\ now - e.lastUpdated > ThresholdMs(t)

\* an entry exactly as old as the threshold still counts as fresh
IsFresh_Inclusive(e, t, now) ==
    /\ e.data # NullData
    /\ e.lastUpdated # NullDate
    /\ e.lastUpdated # InvalidDate
    /\ now - e.lastUpdated <= ThresholdMs(t)

\* cache.x.data && cache.x.lastUpdated && (new Date() - cache.x.lastUpdated) < T
IsFresh(e, t, now) ==
    /\ e.data # NullData
    /\ e.lastUpdated # NullDate
    /\ e.lastUpdated # InvalidDate
    /\ now - e.lastUpdated < ThresholdMs(t)

(* ------------------------- differences of drafts ----------------------- *)
\* the handler looks at the cache before recomputing
ChecksCache(b, t) == ~(b = "part_000" /\ t \in {"monthly", "yearly"})

\* the handler reads req.query.refresh into forceRefresh
ReadsRefresh(b, t) ==
    \/ b = "part_001" /\ t = "monthly"
    \/ b = "part_000" /\ t = "nominations"

\* the handler nulls the entry when forceRefresh
ClearsOnRefresh(b, t) == b = "part_000" /\ t = "nominations"

\* fs.writeFileSync sits in its own try/catch
GuardedWrite(b, t) == b = "part_000" /\ t \in {"monthly", "yearly"}

(* ------------------------------ requests ------------------------------ *)
\* a handler suspended at an await: its route, the await and its forceRefresh;
\* req is the bag of the suspended handlers
InFlight(t, forced, at) == [pc |-> at, type |-> t, forced |-> forced]

One(h) == SetToBag({h})

\* the handlers of route t suspended in the bag b
Suspended(b, t) ==
    BagCardinality([h \in {x \in BagToSet(b) : x.type = t} |-> b[h]])

\* the response sent by the step just taken (NoResponse when it sent none):
\* route and refresh flag of the request answered, status, body, and what
\* went wrong inside the handler on the way to it
NoResponse == [route |-> "none", refresh |-> FALSE, status |-> 0,
               body |-> NullData, fault |-> "none", target |-> "none"]

Response(route, refresh, code, payload, fault) ==
    [route |-> route, refresh |-> refresh, status |-> code,
     body |-> payload, fault |-> fault, target |-> "none"]

\* the answer of the force-update route to a body {target}
AdminResponse(code, target) ==
    [route |-> "admin", refresh |-> FALSE, status |-> code,
     body |-> NullData, fault |-> "none", target |-> target]

\* const providedKey = req.headers['x-api-key'];
\* if (!providedKey || providedKey !== API_KEY) -> 401
apiKeyAuth(key) == key # "none" /\ key = API_KEY

\* if (!providedKey || providedKey !== ADMIN_API_KEY) -> 403
adminApiKeyAuth(key) == key # "none" /\ key = ADMIN_API_KEY

\* the snapshot files a starting server finds: none, or files a previous run
\* wrote just before the restart
StartDisk(d) ==
    [t \in Types |-> IF d = "ok" THEN File(Payload(t, 0)) ELSE NoFile]

\* the state of a process of one of the builds bs once it listens, started
\* over one of the cache directories ds
Start(bs, ds) ==
    /\ build \in bs
    /\ clock = 0
    /\ \E d \in ds :
         disk = StartDisk(IF build \in Servers THEN d ELSE "missing")
    /\ cache = LoadFromDisk(LoadOrder, disk, [t \in Types |-> EmptyEntry])
    /\ req = EmptyBag
    /\ resp = NoResponse
    /\ served = 0
    /\ inval = [t \in Types |-> "no"]
    /\ input = NoInput
    /\ output = NoOutput
    /\ store = "up"

\* the server of part_001 restarted over its snapshots, or the serverless
\* handlers (a first start, without snapshots, is among those of InitBoot)
Init == Start({"part_001", "serverless"}, {"ok"})

\* the revised server of part_000, or the serverless handlers
InitRevised == Start({"part_000", "serverless"}, {"ok"})

(* ------------------------- cache put and persist ----------------------- *)
\* the second assignment forgotten
Put_DataOnly(c, t, p, now) == [c EXCEPT ![t].data = p]

\* cache.x.data = data; cache.x.lastUpdated = new Date();
Put(c, t, p, now) == [c EXCEPT ![t] = [data |-> p, lastUpdated |-> now]]

\* fs.writeFileSync(join(CACHE_DIR, file), JSON.stringify(data, null, 2))
\* every route saving to the file of the monthly route
WriteFile_OneFile(d, t, p) == [d EXCEPT !["monthly"] = File(p)]

\* fs.writeFileSync(join(CACHE_DIR, <the file of the route>), JSON.stringify(data))
WriteFile(d, t, p) == [d EXCEPT ![t] = File(p)]

\* a store query that rejects: the handler's catch answers 500
Fail(h) ==
    /\ req' = req (-) One(h)
    /\ resp' = Response(h.type, h.forced, 500, NullData, "store")

\* the put without the save to disk
Finish_NoSave(h, diskOk) ==
    LET t == h.type
        data == Payload(t, Now)
    IN  /\ cache' = Put(cache, t, data, Now)
        /\ disk' = disk
        /\ req' = req (-) One(h)
        /\ resp' = IF diskOk THEN Response(t, h.forced, 200, data, "none")
                   ELSE IF GuardedWrite(build, t)
                   THEN Response(t, h.forced, 200, data, "disk")
                   ELSE Response(t, h.forced, 500, NullData, "disk")

\* the entry filled once and never overwritten
Finish_PutsOnce(h, diskOk) ==
    LET t == h.type
        data == Payload(t, Now)
    IN  /\ cache' = IF cache[t].data = NullData THEN Put(cache, t, data, Now) ELSE cache
        /\ disk' = IF diskOk THEN WriteFile(disk, t, data) ELSE disk
        /\ req' = req (-) One(h)
        /\ resp' = IF diskOk THEN Response(t, h.forced, 200, data, "none")
                   ELSE IF GuardedWrite(build, t)
                   THEN Response(t, h.forced, 200, data, "disk")
                   ELSE Response(t, h.forced, 500, NullData, "disk")

\* tail of every report handler: put, save to disk, res.json(data); a throw of
\* writeFileSync lands in the handler's catch (500) unless the write is guarded
Finish(h, diskOk) ==
    LET t == h.type
        data == Payload(t, Now)
    IN  /\ cache' = Put(cache, t, data, Now)
        /\ disk' = IF diskOk THEN WriteFile(disk, t, data) ELSE disk
        /\ req' = req (-) One(h)
        /\ resp' = IF diskOk THEN Response(t, h.forced, 200, data, "none")
                   ELSE IF GuardedWrite(build, t)
                   THEN Response(t, h.forced, 200, data, "disk")
                   ELSE Response(t, h.forced, 500, NullData, "disk")

\* the credential checked only when the store has to be queried
Enter_ChecksKeyLate(t, key, refresh, firstAwait) ==
    /\ build \in Servers
    /\ served < MaxServed
    /\ served' = served + 1
    /\ BagCardinality(req) < MaxReq
    /\ LET forceRefresh == refresh /\ ReadsRefresh(build, t)
           c == IF forceRefresh /\ ClearsOnRefresh(build, t)
                THEN [cache EXCEPT ![t] = EmptyEntry] ELSE cache
       IN  IF ChecksCache(build, t) /\ ~forceRefresh /\ IsFresh(c[t], t, Now)
           THEN /\ resp' = Response(t, refresh, 200, c[t].data, "none")
                /\ cache' = c
                /\ inval' = [inval EXCEPT ![t] = "no"]
                /\ req' = req
           ELSE IF ~apiKeyAuth(key)
           THEN /\ resp' = Response(t, FALSE, 401, NullData, "none")
                /\ UNCHANGED <<cache, req, inval>>
           ELSE /\ cache' = c
                /\ inval' = [inval EXCEPT ![t] = "no"]
                /\ req' = req (+) One(InFlight(t, forceRefresh, firstAwait))
                /\ resp' = NoResponse
    /\ UNCHANGED <<calc, store, build, clock, disk>>

\* the middleware and the first lines of a report handler, up to the first
\* await; a request rejected by the middleware never has its query read
Enter(t, key, refresh, firstAwait) ==
    /\ build \in Servers
    /\ served < MaxServed
    /\ served' = served + 1
    /\ BagCardinality(req) < MaxReq
    /\ LET forceRefresh == refresh /\ ReadsRefresh(build, t)
           c == IF forceRefresh /\ ClearsOnRefresh(build, t)
                THEN [cache EXCEPT ![t] = EmptyEntry] ELSE cache
       IN  IF ~apiKeyAuth(key)
           THEN /\ resp' = Response(t, FALSE, 401, NullData, "none")
                /\ UNCHANGED <<cache, req, inval>>
           ELSE /\ cache' = c
                /\ inval' = [inval EXCEPT ![t] = "no"]
                /\ IF ChecksCache(build, t) /\ ~forceRefresh /\ IsFresh(c[t], t, Now)
                   THEN /\ resp' = Response(t, refresh, 200, c[t].data, "none")
                        /\ req' = req
                   ELSE /\ req' = req (+) One(InFlight(t, forceRefresh, firstAwait))
                        /\ resp' = NoResponse
    /\ UNCHANGED <<calc, store, build, clock, disk>>

(* --------------------------- monthly handler --------------------------- *)
MonthlyRequest(key, refresh) == Enter("monthly", key, refresh, "findChallenge")

\* a handler moves on from one await to the next
Resume(h, at) == (req (-) One(h)) (+) One([h EXCEPT !.pc = at])

\* the "no current challenge" answer stored like a report
MonthlyChallenge_CachesAbsent(forced, ok, found) ==
    LET h == InFlight("monthly", forced, "findChallenge") IN
    /\ BagIn(h, req)
    /\ IF ~ok THEN Fail(h) /\ UNCHANGED <<cache, disk>>
       ELSE IF ~found
       THEN /\ req' = req (-) One(h)
            /\ resp' = Response("monthly", forced, 404, NullData, "nochallenge")
            /\ cache' = Put(cache, "monthly", Payload("monthly", Now), Now)
            /\ disk' = disk
       ELSE /\ req' = Resume(h, "findUsers")
            /\ resp' = NoResponse
            /\ UNCHANGED <<cache, disk>>
    /\ UNCHANGED <<calc, store, build, clock, served, inval>>

\* await Challenge.findOne({date: {$gte: currentMonthStart, $lt: nextMonthStart}})
\* ok: the query resolves; found: it resolves to a challenge
MonthlyChallenge(forced, ok, found) ==
    LET h == InFlight("monthly", forced, "findChallenge") IN
    /\ BagIn(h, req)
    /\ IF ~ok THEN Fail(h) /\ UNCHANGED <<cache, disk>>
       ELSE IF ~found
       THEN /\ req' = req (-) One(h)
            /\ resp' = Response("monthly", forced, 404, NullData, "nochallenge")
            /\ UNCHANGED <<cache, disk>>
       ELSE /\ req' = Resume(h, "findUsers")
            /\ resp' = NoResponse
            /\ UNCHANGED <<cache, disk>>
    /\ UNCHANGED <<calc, store, build, clock, served, inval>>

\* await User.find({}), then build, sort, rank, put, save, respond
MonthlyUsers(forced, ok, diskOk) ==
    LET h == InFlight("monthly", forced, "findUsers") IN
    /\ BagIn(h, req)
    /\ IF ~ok THEN Fail(h) /\ UNCHANGED <<cache, disk>>
       ELSE Finish(h, diskOk)
    /\ UNCHANGED <<calc, store, build, clock, served, inval>>

(* ---------------------------- yearly handler --------------------------- *)
YearlyRequest(key, refresh) == Enter("yearly", key, refresh, "findUsers")

\* await User.find({})
YearlyUsers(ok) ==
    LET h == InFlight("yearly", FALSE, "findUsers") IN
    /\ BagIn(h, req)
    /\ IF ~ok THEN Fail(h)
       ELSE /\ req' = Resume(h, "findChallenges")
            /\ resp' = NoResponse
    /\ UNCHANGED <<calc, store, build, clock, cache, disk, served, inval>>

\* await Challenge.find({date: {$gte: yearStart, $lt: yearEnd}}).sort({date: 1})
YearlyChallenges(ok, diskOk) ==
    LET h == InFlight("yearly", FALSE, "findChallenges") IN
    /\ BagIn(h, req)
    /\ IF ~ok THEN Fail(h) /\ UNCHANGED <<cache, disk>>
       ELSE Finish(h, diskOk)
    /\ UNCHANGED <<calc, store, build, clock, served, inval>>

(* -------------------------- nominations handler ------------------------ *)
NominationsRequest(key, refresh) == Enter("nominations", key, refresh, "findUsers")

\* await User.find({}), then filter, group, sort, put, save, respond
NominationsUsers(forced, ok, diskOk) ==
    LET h == InFlight("nominations", forced, "findUsers") IN
    /\ BagIn(h, req)
    /\ IF ~ok THEN Fail(h) /\ UNCHANGED <<cache, disk>>
       ELSE Finish(h, diskOk)
    /\ UNCHANGED <<calc, store, build, clock, served, inval>>

(* ------------------------- admin force-update -------------------------- *)
Clear(c, ts) == [t \in Types |-> IF t \in ts THEN EmptyEntry ELSE c[t]]

\* the yearly entry forgotten in the leaderboards block
Cleared_NoYearly(target) ==
    (IF target = "all" \/ target = "leaderboards" THEN {"monthly"} ELSE {})
    \cup (IF target = "all" \/ target = "nominations" THEN {"nominations"} ELSE {})

\* every valid target clears everything
Cleared_Everything(target) == Types

\* if (target === 'all' || target === 'leaderboards') {...}
\* if (target === 'all' || target === 'nominations') {...}
Cleared(target) ==
    (IF target = "all" \/ target = "leaderboards" THEN {"monthly", "yearly"} ELSE {})
    \cup (IF target = "all" \/ target = "nominations" THEN {"nominations"} ELSE {})

\* the report types a target names ("Cleared cache for ${target}")
Covered(target) ==
    CASE target = "all" -> Types
      [] target = "leaderboards" -> {"monthly", "yearly"}
      [] target = "nominations" -> {"nominations"}
      [] OTHER -> {}

\* history of the route: since the last successful invalidation of type t no
\* report request of that type has reached its handler ("no" otherwise);
\* "raced" when a recomputation of t was awaiting the store as it ran
Observe(t) == IF Suspended(req, t) > 0 THEN "raced" ELSE "quiet"

\* any credential that is present accepted by the admin middleware
ForceUpdate_AnyKey(key, target) ==
    /\ build \in Servers
    /\ served < MaxServed
    /\ served' = served + 1
    /\ IF key = "none"
       THEN /\ resp' = AdminResponse(403, "none")
            /\ UNCHANGED <<cache, inval>>
       ELSE IF target = "none" \/ (target # "all" /\ target # "leaderboards"
                                    /\ target # "nominations")
       THEN /\ resp' = AdminResponse(400, target)
            /\ UNCHANGED <<cache, inval>>
       ELSE /\ resp' = AdminResponse(200, target)
            /\ cache' = Clear(cache, Cleared(target))
            /\ inval' = [t \in Types |->
                            IF t \in Covered(target) THEN Observe(t) ELSE inval[t]]
    /\ UNCHANGED <<calc, store, build, clock, disk, req>>

\* nothing to clear counted as a failure
ForceUpdate_FailsOnEmpty(key, target) ==
    /\ build \in Servers
    /\ served < MaxServed
    /\ served' = served + 1
    /\ IF ~adminApiKeyAuth(key)
       THEN /\ resp' = AdminResponse(403, "none")
            /\ UNCHANGED <<cache, inval>>
       ELSE IF target = "none" \/ (target # "all" /\ target # "leaderboards"
                                    /\ target # "nominations")
       THEN /\ resp' = AdminResponse(400, target)
            /\ UNCHANGED <<cache, inval>>
       ELSE IF \A t \in Cleared(target) : cache[t] = EmptyEntry
       THEN /\ resp' = AdminResponse(500, target)
            /\ UNCHANGED <<cache, inval>>
       ELSE /\ resp' = AdminResponse(200, target)
            /\ cache' = Clear(cache, Cleared(target))
            /\ inval' = [t \in Types |->
                            IF t \in Covered(target) THEN Observe(t) ELSE inval[t]]
    /\ UNCHANGED <<calc, store, build, clock, disk, req>>

\* the target checked only after the entries were cleared
ForceUpdate_ValidatesLate(key, target) ==
    /\ build \in Servers
    /\ served < MaxServed
    /\ served' = served + 1
    /\ IF ~adminApiKeyAuth(key)
       THEN /\ resp' = AdminResponse(403, "none")
            /\ UNCHANGED <<cache, inval>>
       ELSE IF target = "none" \/ (target # "all" /\ target # "leaderboards"
                                    /\ target # "nominations")
       THEN /\ resp' = AdminResponse(400, target)
            /\ cache' = Clear(cache, Types)
            /\ UNCHANGED inval
       ELSE /\ resp' = AdminResponse(200, target)
            /\ cache' = Clear(cache, Cleared(target))
            /\ inval' = [t \in Types |->
                            IF t \in Covered(target) THEN Observe(t) ELSE inval[t]]
    /\ UNCHANGED <<calc, store, build, clock, disk, req>>

\* a request rejected by the middleware never has its body read
ForceUpdate(key, target) ==
    /\ build \in Servers
    /\ served < MaxServed
    /\ served' = served + 1
    /\ IF ~adminApiKeyAuth(key)
       THEN /\ resp' = AdminResponse(403, "none")
            /\ UNCHANGED <<cache, inval>>
       ELSE IF target = "none" \/ (target # "all" /\ target # "leaderboards"
                                    /\ target # "nominations")
       THEN /\ resp' = AdminResponse(400, target)
            /\ UNCHANGED <<cache, inval>>
       ELSE /\ resp' = AdminResponse(200, target)
            /\ cache' = Clear(cache, Cleared(target))
            /\ inval' = [t \in Types |->
                            IF t \in Covered(target) THEN Observe(t) ELSE inval[t]]
    /\ UNCHANGED <<calc, store, build, clock, disk, req>>

(* ------------------------------ environment ---------------------------- *)
Tick ==
    /\ clock < MaxClock
    /\ clock' = clock + 1
    /\ resp' = NoResponse
    /\ UNCHANGED <<calc, store, build, cache, disk, req, served, inval>>

(* -------------------------- serverless handlers ------------------------ *)
\* the literal rankings that api/leaderboard.js answers with
Hardcoded == [kind |-> "hardcoded", stamp |-> NullDate]

\* the three literal nominations of pages/api/nominations.js
MockData(now) == [kind |-> "mock", stamp |-> now]

\* api/leaderboard.js, first handler.  dbOk: connectToDatabase and findOne
\* resolve; found: findOne resolves to a challenge
ApiLeaderboard(dbOk, found) ==
    /\ build = "serverless"
    /\ served < MaxServed
    /\ served' = served + 1
    /\ resp' = IF ~dbOk THEN Response("api/leaderboard", FALSE, 200, Hardcoded, "store")
               ELSE IF ~found
               THEN Response("api/leaderboard", FALSE, 404, NullData, "nochallenge")
               ELSE Response("api/leaderboard", FALSE, 200, Hardcoded, "none")
    /\ UNCHANGED <<calc, store, build, clock, cache, disk, req, inval>>

\* pages/api/nominations.js.  dbOk: connectToDatabase and User.find resolve;
\* some: a user has a nomination in the current month; carrd: ?format=carrd
PagesNominations(dbOk, some, carrd) ==
    /\ build = "serverless"
    /\ served < MaxServed
    /\ served' = served + 1
    /\ LET empty == ~dbOk \/ ~some
           data == IF carrd /\ empty THEN MockData(Now) ELSE Payload("nominations", Now)
       IN  resp' = Response("pages/api/nominations", FALSE, 200, data,
                            IF dbOk THEN "none" ELSE "store")
    /\ UNCHANGED <<calc, store, build, clock, cache, disk, req, inval>>

Next ==
    \/ \E key \in Keys, refresh \in BOOLEAN : MonthlyRequest(key, refresh)
    \/ \E forced, ok, found \in BOOLEAN : MonthlyChallenge(forced, ok, found)
    \/ \E forced, ok, diskOk \in BOOLEAN : MonthlyUsers(forced, ok, diskOk)
    \/ \E key \in Keys, refresh \in BOOLEAN : YearlyRequest(key, refresh)
    \/ \E ok \in BOOLEAN : YearlyUsers(ok)
    \/ \E ok, diskOk \in BOOLEAN : YearlyChallenges(ok, diskOk)
    \/ \E key \in Keys, refresh \in BOOLEAN : NominationsRequest(key, refresh)
    \/ \E forced, ok, diskOk \in BOOLEAN : NominationsUsers(forced, ok, diskOk)
    \/ \E key \in Keys, target \in BodyTargets : ForceUpdate(key, target)
    \/ \E dbOk, found \in BOOLEAN : ApiLeaderboard(dbOk, found)
    \/ \E dbOk, some, carrd \in BOOLEAN : PagesNominations(dbOk, some, carrd)
    \/ Tick

Spec == Init /\ [][Next]_vars

SpecRevised == InitRevised /\ [][Next]_vars

(* ------------------------------- restart ------------------------------- *)
\* the process restarted with whatever the previous run left in memory
Restart_KeepsMemory ==
    /\ build \in Servers
    /\ cache' = cache
    /\ req' = EmptyBag
    /\ resp' = NoResponse
    /\ UNCHANGED <<calc, store, build, clock, disk, served, inval>>

\* the process ends and is started again: the handlers in flight are gone,
\* "let cache" is initialised and the snapshots are loaded
Restart ==
    /\ build \in Servers
    /\ cache' = LoadFromDisk(LoadOrder, disk, [t \in Types |-> EmptyEntry])
    /\ req' = EmptyBag
    /\ resp' = NoResponse
    /\ UNCHANGED <<calc, store, build, clock, disk, served, inval>>

NextRestart ==
    \/ Next
    \/ Restart

SpecRestart == Init /\ [][NextRestart]_vars

(* ------------------------------- health -------------------------------- *)
\* {status: 'ok', timestamp: new Date().toISOString()}
HealthBody(now) == [kind |-> "ok", stamp |-> now]

\* the route behind the read credential
Health_Authenticated(key) ==
    /\ build \in Servers
    /\ resp' = IF apiKeyAuth(key)
               THEN Response("health", FALSE, 200, HealthBody(Now), "none")
               ELSE Response("health", FALSE, 401, NullData, "none")
    /\ UNCHANGED <<calc, store, build, clock, cache, disk, req, served, inval>>

\* app.get('/api/health', (req, res) => res.json(...)): no middleware, no
\* await; key is the x-api-key header the request happens to carry
Health(key) ==
    /\ build \in Servers
    /\ resp' = Response("health", FALSE, 200, HealthBody(Now), "none")
    /\ UNCHANGED <<calc, store, build, clock, cache, disk, req, served, inval>>

NextHealth ==
    \/ Next
    \/ \E key \in Keys : Health(key)

SpecHealth == Init /\ [][NextHealth]_vars

(* ------------------------- start from any snapshots -------------------- *)
\* what the cache directory can hold for type t when the process starts: no
\* file, a file JSON.parse throws on, a payload a previous run wrote, or JSON
\* without a lastUpdated field
StartFiles(t) == {NoFile, BadFile, File(Payload(t, 0)), File(Unstamped(t))}

\* the server of part_001 once it listens, started on any cache directory
InitBoot ==
    /\ build \in {"part_001", "serverless"}
    /\ clock = 0
    /\ disk \in [Types -> UNION {StartFiles(t) : t \in Types}]
    /\ \A t \in Types : disk[t] \in StartFiles(t)
    /\ build = "serverless" => \A t \in Types : disk[t] = NoFile
    /\ cache = LoadFromDisk(LoadOrder, disk, [t \in Types |-> EmptyEntry])
    /\ req = EmptyBag
    /\ resp = NoResponse
    /\ served = 0
    /\ inval = [t \in Types |-> "no"]
    /\ input = NoInput
    /\ output = NoOutput
    /\ store = "up"

\* the first MaxBoot requests after the start, each followed to its end
Booting == served < MaxBoot

NextBoot ==
    \/ Booting /\ \E key \in Keys, refresh \in BOOLEAN : MonthlyRequest(key, refresh)
    \/ \E forced, ok, found \in BOOLEAN : MonthlyChallenge(forced, ok, found)
    \/ \E forced, ok, diskOk \in BOOLEAN : MonthlyUsers(forced, ok, diskOk)
    \/ Booting /\ \E key \in Keys, refresh \in BOOLEAN : YearlyRequest(key, refresh)
    \/ \E ok \in BOOLEAN : YearlyUsers(ok)
    \/ \E ok, diskOk \in BOOLEAN : YearlyChallenges(ok, diskOk)
    \/ Booting /\ \E key \in Keys, refresh \in BOOLEAN : NominationsRequest(key, refresh)
    \/ \E forced, ok, diskOk \in BOOLEAN : NominationsUsers(forced, ok, diskOk)
    \/ Booting /\ \E key \in Keys, target \in BodyTargets : ForceUpdate(key, target)
    \/ Booting /\ \E dbOk, found \in BOOLEAN : ApiLeaderboard(dbOk, found)
    \/ Booting /\ \E dbOk, some, carrd \in BOOLEAN : PagesNominations(dbOk, some, carrd)
    \/ Tick

SpecBoot == InitBoot /\ [][NextBoot]_vars

\* the same start at any instant of the clock: the snapshots were written
\* at instant 0, the process starts then or later
InitRehydrate ==
    /\ build \in {"part_001", "serverless"}
    /\ clock \in 0..MaxClock
    /\ disk \in [Types -> UNION {StartFiles(t) : t \in Types}]
    /\ \A t \in Types : disk[t] \in StartFiles(t)
    /\ build = "serverless" => \A t \in Types : disk[t] = NoFile
    /\ cache = LoadFromDisk(LoadOrder, disk, [t \in Types |-> EmptyEntry])
    /\ req = EmptyBag
    /\ resp = NoResponse
    /\ served = 0
    /\ inval = [t \in Types |-> "no"]
    /\ input = NoInput
    /\ output = NoOutput
    /\ store = "up"

SpecRehydrate == InitRehydrate /\ [][NextBoot]_vars

(* ----------------------- a store that stops answering ------------------ *)
\* the server of part_001 alone
InitSilent == Start({"part_001"}, {"missing", "ok"})

\* the store settles the pending queries
Answers == store = "up"

\* from here on no query is settled: the promises the handlers await stay
\* pending, and no handler has a timer of its own
Silence ==
    /\ store = "up"
    /\ store' = "silent"
    /\ resp' = NoResponse
    /\ UNCHANGED <<calc, build, clock, cache, disk, req, served, inval>>

\* a query is settled and the handler that awaits it runs to its next await
\* or to its response
Settled ==
    /\ Answers
    /\ \/ \E forced, ok, found \in BOOLEAN : MonthlyChallenge(forced, ok, found)
       \/ \E forced, ok, diskOk \in BOOLEAN : MonthlyUsers(forced, ok, diskOk)
       \/ \E ok \in BOOLEAN : YearlyUsers(ok)
       \/ \E ok, diskOk \in BOOLEAN : YearlyChallenges(ok, diskOk)
       \/ \E forced, ok, diskOk \in BOOLEAN : NominationsUsers(forced, ok, diskOk)

NextSilent ==
    \/ \E key \in Keys, refresh \in BOOLEAN : MonthlyRequest(key, refresh)
    \/ Answers /\ \E forced, ok, found \in BOOLEAN : MonthlyChallenge(forced, ok, found)
    \/ Answers /\ \E forced, ok, diskOk \in BOOLEAN : MonthlyUsers(forced, ok, diskOk)
    \/ \E key \in Keys, refresh \in BOOLEAN : YearlyRequest(key, refresh)
    \/ Answers /\ \E ok \in BOOLEAN : YearlyUsers(ok)
    \/ Answers /\ \E ok, diskOk \in BOOLEAN : YearlyChallenges(ok, diskOk)
    \/ \E key \in Keys, refresh \in BOOLEAN : NominationsRequest(key, refresh)
    \/ Answers /\ \E forced, ok, diskOk \in BOOLEAN : NominationsUsers(forced, ok, diskOk)
    \/ \E key \in Keys, target \in BodyTargets : ForceUpdate(key, target)
    \/ Tick
    \/ Silence

\* the event loop resumes a handler whose awaited promise has settled
SpecSilent == InitSilent /\ [][NextSilent]_vars /\ WF_vars(Settled)

\* the same server with a store that never goes silent
SpecAnswering == InitSilent /\ [][NextSilent /\ store' = "up"]_vars /\ WF_vars(Settled)

TypeOK ==
    /\ build \in Builds
    /\ clock \in 0..MaxClock
    /\ served \in 0..MaxServed
    /\ BagCardinality(req) <= MaxReq
    /\ store \in StoreStates
    /\ resp.status \in {0, 200, 400, 401, 403, 404, 500}
    /\ \A t \in Types : inval[t] \in {"no", "quiet", "raced"}

(* ======================= properties of the cache ======================= *)
\* vocabulary of the properties: what a step did, read off the two states

\* a report request of type t reached its handler and went on to the store
Missed(t) == Suspended(req', t) = Suspended(req, t) + 1

\* ... with forceRefresh set
ForcedMiss(t) ==
    \E h \in BagToSet(req') : h.type = t /\ h.forced /\ req' = req (+) One(h)

\* a report request of type t was answered inside the step that received it,
\* without an await: no store query was issued for it
AnsweredAtOnce(t) ==
    /\ served' = served + 1
    /\ req' = req
    /\ resp'.route = t
    /\ resp'.status = 200

\* an authorised report request of type t arrived in this step
Arrived(t) == Missed(t) \/ AnsweredAtOnce(t)

\* a recomputation of type t ran to its end in this step
Completed(t) == Suspended(req', t) = Suspended(req, t) - 1

Minutes(n) == n * 60 * 1000

FreshFor(t) ==
    CASE t = "monthly" -> Minutes(15)
      [] t = "yearly" -> Minutes(30)
      [] t = "nominations" -> Minutes(10)

IsEmpty(e) == e.data = NullData /\ e.lastUpdated = NullDate

Age(e) == Now - e.lastUpdated

\* C1: in the server of part_001, a report request (not a forced refresh) that
\* finds its cache entry non-empty and younger than the threshold is answered
\* at once with exactly the cached payload, whose lastUpdated stamp is that of
\* the put; it issues no store query and leaves cache and snapshots unchanged
C1_HitReturnsCachedPayload ==
    [][\A t \in Types :
         ( /\ build = "part_001"
           /\ Arrived(t) /\ ~ForcedMiss(t)
           /\ cache[t].data # NullData
           /\ cache[t].lastUpdated >= 0
           /\ Age(cache[t]) < FreshFor(t) )
         => /\ AnsweredAtOnce(t)
            /\ resp'.body = cache[t].data
            /\ resp'.body.stamp = cache[t].lastUpdated
            /\ cache' = cache
            /\ disk' = disk]_vars

\* a payload put at an earlier instant has just been served from the cache
C1_Witness ==
    /\ build = "part_001"
    /\ resp.route \in Types
    /\ resp.status = 200
    /\ resp.body.stamp >= 0
    /\ resp.body.stamp < Now
    /\ req = EmptyBag

\* C2: in the server of part_001, a report request (not a forced refresh) goes
\* to the store exactly when its entry is EMPTY or the entry's age is at least
\* 15 minutes (monthly), 30 minutes (yearly), 10 minutes (nominations); at an
\* age equal to the threshold it is a miss
C2_MissIffEmptyOrStale ==
    [][\A t \in Types :
         (build = "part_001" /\ Arrived(t) /\ ~ForcedMiss(t))
         => (Missed(t) <=> (IsEmpty(cache[t]) \/ Age(cache[t]) >= FreshFor(t)))]_vars

\* a request is awaiting the store although the entry is non-empty: the entry
\* is exactly as old as its threshold
C2_Witness ==
    \E h \in BagToSet(req) :
      LET t == h.type IN
      /\ build = "part_001"
      /\ ~h.forced
      /\ cache[t].data # NullData
      /\ Age(cache[t]) = FreshFor(t)
      /\ resp = NoResponse

\* C3: after an admin invalidation covering type t that ran while no
\* recomputation of t was in flight, the next report request of type t is a
\* miss that goes to the store, whatever the clock says
C3_InvalidateThenMiss ==
    [][\A t \in Types :
         (inval[t] = "quiet" /\ Arrived(t)) => Missed(t)]_vars

\* the invalidation has just been followed by a request that went to the
\* store, at the instant of the snapshot that had filled the entry
C3_Witness ==
    /\ build = "part_001"
    /\ BagIn(InFlight("monthly", FALSE, "findChallenge"), req)
    /\ inval["monthly"] = "no"
    /\ IsEmpty(cache["monthly"])
    /\ disk["monthly"] = File(Payload("monthly", Now))

\* C4: a report request with refresh=true is never answered from the cache
C4_ForceRefreshRecomputes ==
    [][\A t \in Types : ~(AnsweredAtOnce(t) /\ resp'.refresh)]_vars

\* C5: an authorised admin invalidation with target all empties all three
\* entries; with target nominations it empties nominations and leaves monthly
\* and yearly as they were; with target leaderboards it empties monthly and
\* yearly and leaves nominations as it was
C5_InvalidationTargets ==
    [][(resp'.route = "admin" /\ resp'.status = 200 /\ served' = served + 1)
       => /\ resp'.target = "all"
             => \A t \in Types : IsEmpty(cache'[t])
          /\ resp'.target = "nominations"
             => /\ IsEmpty(cache'["nominations"])
                /\ cache'["monthly"] = cache["monthly"]
                /\ cache'["yearly"] = cache["yearly"]
          /\ resp'.target = "leaderboards"
             => /\ IsEmpty(cache'["monthly"])
                /\ IsEmpty(cache'["yearly"])
                /\ cache'["nominations"] = cache["nominations"]
          /\ resp'.target \in {"all", "nominations", "leaderboards"}]_vars

\* target nominations has just emptied nominations next to full leaderboards
C5_Witness ==
    /\ resp.route = "admin" /\ resp.status = 200 /\ resp.target = "nominations"
    /\ IsEmpty(cache["nominations"])
    /\ ~IsEmpty(cache["monthly"])
    /\ ~IsEmpty(cache["yearly"])
    /\ disk["nominations"].state = "ok"

\* an entry is whole: both fields empty, or a payload with the stamp of its put
Whole(e) ==
    \/ IsEmpty(e)
    \/ e.data # NullData /\ e.lastUpdated # NullDate /\ e.data.stamp = e.lastUpdated

\* C6: in every state a handler can run in, every cache entry is whole (never
\* one of payload/timestamp alone, never a payload with the timestamp of
\* another put), and a recomputation that reaches its put leaves the entry
\* holding its own payload and timestamp, whatever raced with it
C6_NoTornEntry ==
    /\ [](\A t \in Types : Whole(cache[t]))
    /\ [][\A t \in Types :
            (Completed(t) /\ resp'.fault \notin {"store", "nochallenge"})
            => cache'[t] = [data |-> Payload(t, Now'), lastUpdated |-> Now']]_vars

\* of the two requests received so far, both recomputations of one type, one
\* has just put at a later instant than the start and the other is still
\* awaiting the store
C6_Witness ==
    \E t \in Types :
      /\ Suspended(req, t) > 0
      /\ resp.route = t /\ resp.status = 200
      /\ served = 2
      /\ Now > 0
      /\ cache[t] = [data |-> resp.body, lastUpdated |-> Now]

\* C7: the first report request of type t to arrive after an admin
\* invalidation covering t is a miss that goes to the store, also when a
\* recomputation of t was in flight as the invalidation ran
C7_InvalidationForcesRecompute ==
    [][\A t \in Types :
         (inval[t] # "no" /\ Arrived(t)) => Missed(t)]_vars

\* C8: a monthly request that finds no challenge for the current month answers
\* 404 without a payload, and neither its first step nor the step that answers
\* changes any cache entry or snapshot
C8_NotFoundNotCached ==
    [][/\ resp'.fault = "nochallenge" /\ resp'.route = "monthly"
          => /\ resp'.status = 404
             /\ resp'.body = NullData
             /\ cache' = cache
             /\ disk' = disk
       /\ Missed("monthly") => (cache' = cache /\ disk' = disk)]_vars

\* the 404 has just been sent while the monthly entry holds a payload
C8_Witness ==
    /\ resp.route = "monthly" /\ resp.status = 404 /\ resp.fault = "nochallenge"
    /\ ~IsEmpty(cache["monthly"])
    /\ disk["monthly"].state = "ok"

\* C9: a handler whose store query failed answers with an error status and no
\* payload; it never answers success
C9_StoreFailureIsError ==
    resp.fault = "store" => (resp.status >= 500 /\ resp.body = NullData)

\* C10: a handler whose snapshot write failed still answers 200 with the
\* payload it computed, and that payload is in the cache entry
C10_DiskFailureIsSuccess ==
    resp.fault = "disk"
    => /\ resp.status = 200
       /\ resp.body = cache[resp.route].data
       /\ resp.body # NullData
(* ========================== admin invalidation ========================= *)
\* the step is the force-update route answering a caller who passed the
\* admin middleware
AdminStep == resp'.route = "admin" /\ served' = served + 1 /\ resp'.status # 403

\* C13: an authorised admin invalidation answers the validation error 400
\* exactly when its target is missing or is none of all, leaderboards,
\* nominations, and then leaves every cache entry and snapshot as it was
C13_InvalidTargetRejected ==
    [][AdminStep
       => /\ resp'.status = 400 <=> resp'.target \notin Targets
          /\ resp'.status = 400 => (cache' = cache /\ disk' = disk)]_vars

\* the target "monthly" has just been refused while all three entries are full
C13_Witness ==
    /\ resp.route = "admin" /\ resp.status = 400 /\ resp.target = "monthly"
    /\ \A t \in Types : ~IsEmpty(cache[t])

\* C14: an authorised admin invalidation with a valid target always answers
\* 200 and leaves the entries it names EMPTY; where they were EMPTY already
\* it changes nothing, so that a second application is a no-op
C14_InvalidationIdempotent ==
    [][(AdminStep /\ resp'.target \in Targets)
       => /\ resp'.status = 200
          /\ \A t \in Covered(resp'.target) : IsEmpty(cache'[t])
          /\ (\A t \in Covered(resp'.target) : IsEmpty(cache[t])) => cache' = cache
          /\ disk' = disk]_vars

\* a server started without snapshots, all entries EMPTY, has just answered
\* 200 to its first request, an invalidation of everything
C14_Witness ==
    /\ resp.route = "admin" /\ resp.status = 200 /\ resp.target = "all"
    /\ served = 1
    /\ \A t \in Types : disk[t] = NoFile /\ IsEmpty(cache[t])

\* C15: an admin invalidation whose credential is absent or is not the admin
\* secret (the read secret included) answers 403 and changes no cache entry
C15_WrongAdminKeyForbidden ==
    [][\A key \in Keys \ {ADMIN_API_KEY}, target \in BodyTargets :
          ForceUpdate(key, target)
          => /\ resp'.status = 403
             /\ cache' = cache
             /\ disk' = disk]_vars

\* an invalidation has just been refused while every entry was filled
C15_Witness ==
    /\ resp.route = "admin" /\ resp.status = 403
    /\ \A t \in Types : ~IsEmpty(cache[t])

\* C16: a report request whose credential is absent or is not the read
\* secret answers 401 with no report in it, starts no store query and
\* leaves every cache entry and snapshot as it was
C16_WrongReadKeyUnauthorized ==
    [][\A key \in Keys \ {API_KEY}, refresh \in BOOLEAN :
          (\/ MonthlyRequest(key, refresh)
           \/ YearlyRequest(key, refresh)
           \/ NominationsRequest(key, refresh))
          => /\ resp'.status = 401
             /\ resp'.body = NullData
             /\ req' = req
             /\ cache' = cache
             /\ disk' = disk]_vars

\* a report request has just been refused while its entry was fresh
C16_Witness ==
    \E t \in Types :
        /\ resp.route = t /\ resp.status = 401
        /\ IsFresh(cache[t], t, Now)

\* C17: every report request gets a response: no handler stays suspended
\* for ever, also when the store stops answering
C17_EveryRequestAnswered == []<>(req = EmptyBag)

(* ============================ process start =========================== *)
\* C11: in the server of part_001 as it starts to listen (no request received
\* yet), every report type whose snapshot file is missing or cannot be parsed
\* has an EMPTY entry, payload and timestamp both empty; the start itself
\* always completes, whatever the files are
C11_BadSnapshotLeavesEmpty ==
    (served = 0 /\ build = "part_001")
    => \A t \in Types :
         disk[t].state \in {"missing", "corrupt"} => IsEmpty(cache[t])

\* a server started on an unparseable monthly snapshot has just answered its
\* first request with a recomputed report
C11_Witness ==
    /\ disk["monthly"] = BadFile
    /\ disk["nominations"] = NoFile
    /\ served = 1
    /\ resp.route = "yearly" /\ resp.status = 200
(* ====================== computing the monthly board ==================== *)
MaxUsers == 3          \* user documents User.find resolves to
MaxYearUsers == 2      \* ... for a yearly report
MaxNomUsers == 2       \* ... for a nominations report
MaxNoms == 3           \* nominations in the documents of one report
MaxSpan == 100         \* half hours between now and the end of a challenge
MaxKeyedUsers == 2     \* ... for a monthly report over several period keys
MaxCarrdNoms == 3      \* nominations in the documents of one Carrd report
MaxDays == 75          \* days of the calendar a monthly report is asked on

\* a user document's monthlyChallenges / shadowChallenges: a Map from period
\* keys to progress records, or nothing at all (the field is absent)
NoMap == [kind |-> "undefined", entries |-> <<>>]

MapOf(f) == [kind |-> "map", entries |-> f]

\* User.formatDateKey(currentChallenge.date)
monthKey == "2025-03-01"

\* map.get(key) || {}, its numeric fields read with "|| 0"
Get(m, key) ==
    IF key \in DOMAIN m.entries THEN m.entries[key]
    ELSE [progress |-> 0, achievements |-> 0]

Record(p, a) == [progress |-> p, achievements |-> a]

\* the documents of the bounded store: the monthly map absent, without the
\* current period, or with a record for it; the same for the shadow map
MonthlyMaps ==
    {NoMap, MapOf(<<>>)}
    \cup {MapOf([k \in {monthKey} |-> Record(r[1], r[2])]) :
            r \in {<<1, 0>>, <<1, 1>>, <<2, 1>>}}

ShadowMaps == {NoMap, MapOf(<<>>), MapOf([k \in {monthKey} |-> Record(1, 1)])}

UserDocs ==
    [monthlyChallenges : MonthlyMaps, shadowChallenges : ShadowMaps]

\* sequences of at most n elements of S
RECURSIVE SeqsUpTo(_, _)
SeqsUpTo(S, n) ==
    IF n = 0 THEN {<<>>}
    ELSE LET shorter == SeqsUpTo(S, n - 1) IN
         shorter \cup {Append(q, x) : q \in {y \in shorter : Len(y) = n - 1}, x \in S}

\* user.monthlyChallenges.get(...) on a document without the map: TypeError
Throws(user, revealed) ==
    \/ user.monthlyChallenges.kind # "map"
    \/ revealed /\ user.shadowChallenges.kind # "map"

\* part_000 looks before it reads: a map that is absent counts as no record
Guarded(m) == IF m.kind = "map" THEN m ELSE MapOf(<<>>)

\* the shadow record read whether or not the shadow challenge is revealed
Entry_IgnoresReveal(user, i, revealed) ==
    LET monthlyData == Get(Guarded(user.monthlyChallenges), monthKey)
        monthlyPoints == monthlyData.progress
        shadowPoints == Get(Guarded(user.shadowChallenges), monthKey).progress
    IN  [username |-> i,
         monthlyPoints |-> monthlyPoints,
         shadowPoints |-> shadowPoints,
         totalPoints |-> monthlyPoints + shadowPoints,
         achieved |-> monthlyData.achievements,
         rank |-> 0]

\* the body of the per-user loop: the entry pushed for the user at position i
Entry(user, i, revealed) ==
    LET monthlyData == Get(Guarded(user.monthlyChallenges), monthKey)
        monthlyPoints == monthlyData.progress
        shadowPoints == IF revealed
                        THEN Get(Guarded(user.shadowChallenges), monthKey).progress
                        ELSE 0
    IN  [username |-> i,
         monthlyPoints |-> monthlyPoints,
         shadowPoints |-> shadowPoints,
         totalPoints |-> monthlyPoints + shadowPoints,
         achieved |-> monthlyData.achievements,
         rank |-> 0]

\* for (const user of users) { ...; if (totalPoints === 0) continue; push }
RECURSIVE Collect(_, _, _)
Collect(users, i, revealed) ==
    IF i > Len(users) THEN <<>>
    ELSE LET e == Entry(users[i], i, revealed)
             rest == Collect(users, i + 1, revealed)
         IN  IF e.totalPoints = 0 THEN rest ELSE <<e>> \o rest

\* the tie-break on the achieved count left out
Before_TotalOnly(b, x, y) == y.totalPoints - x.totalPoints < 0

\* the comparator is negative: a sorts before b
\* part_001: (a, b) => b.totalPoints !== a.totalPoints
\*              ? b.totalPoints - a.totalPoints : b.achieved - a.achieved
\* part_000: (a, b) => b.totalPoints - a.totalPoints
Before(b, x, y) ==
    IF b = "part_001"
    THEN IF y.totalPoints # x.totalPoints
         THEN y.totalPoints - x.totalPoints < 0
         ELSE y.achieved - x.achieved < 0
    ELSE y.totalPoints - x.totalPoints < 0

\* Array.prototype.sort is stable: e goes in front of the first element it
\* sorts before
RECURSIVE Insert(_, _, _)
Insert(b, e, sorted) ==
    IF sorted = <<>> THEN <<e>>
    ELSE IF Before(b, e, Head(sorted)) THEN <<e>> \o sorted
    ELSE <<Head(sorted)>> \o Insert(b, e, Tail(sorted))

RECURSIVE Sort(_, _)
Sort(b, board) ==
    IF board = <<>> THEN <<>>
    ELSE Insert(b, board[Len(board)], Sort(b, SubSeq(board, 1, Len(board) - 1)))

\* the next group given the next rank, not its position
RECURSIVE RankLoop_Dense(_, _, _, _, _)
RankLoop_Dense(board, i, currentRank, currentPoints, currentAchieved) ==
    IF i > Len(board) THEN board
    ELSE LET e == board[i]
             lower == \/ e.totalPoints < currentPoints
                      \/ e.totalPoints = currentPoints /\ e.achieved < currentAchieved
             r == IF lower THEN currentRank + 1 ELSE currentRank
         IN  RankLoop_Dense([board EXCEPT ![i].rank = r], i + 1, r,
                            IF lower THEN e.totalPoints ELSE currentPoints,
                            IF lower THEN e.achieved ELSE currentAchieved)

\* for (let i = 0; i < leaderboard.length; i++) { ... } with i counted from 1;
\* usersProcessed is i - 1 at the top of the body
RECURSIVE RankLoop(_, _, _, _, _)
RankLoop(board, i, currentRank, currentPoints, currentAchieved) ==
    IF i > Len(board) THEN board
    ELSE LET e == board[i]
             lower == \/ e.totalPoints < currentPoints
                      \/ e.totalPoints = currentPoints /\ e.achieved < currentAchieved
             r == IF lower THEN (i - 1) + 1 ELSE currentRank
         IN  RankLoop([board EXCEPT ![i].rank = r], i + 1, r,
                      IF lower THEN e.totalPoints ELSE currentPoints,
                      IF lower THEN e.achieved ELSE currentAchieved)

\* part_001 ranks the sorted board; part_000 sends it without ranks
Ranked(b, board) ==
    IF b = "part_001"
    THEN RankLoop(board, 1, 1,
                  IF Len(board) > 0 THEN board[1].totalPoints ELSE 0,
                  IF Len(board) > 0 THEN board[1].achieved ELSE 0)
    ELSE board

\* from "const leaderboard = []" to the response: 500 from the handler's catch
\* when the loop throws (part_001), else 200 with the board
MonthlyLeaderboard(b, users, revealed) ==
    IF b = "part_001" /\ \E i \in 1..Len(users) : Throws(users[i], revealed)
    THEN [status |-> 500, leaderboard |-> <<>>]
    ELSE [status |-> 200, leaderboard |-> Ranked(b, Sort(b, Collect(users, 1, revealed)))]

\* the computation of one monthly report: the documents User.find resolved to
\* and the challenge's shadow_challange_revealed
InitMonthly ==
    /\ build \in Servers
    /\ clock = 0
    /\ disk = StartDisk("missing")
    /\ cache = [t \in Types |-> EmptyEntry]
    /\ req = EmptyBag
    /\ resp = NoResponse
    /\ served = 0
    /\ inval = [t \in Types |-> "no"]
    /\ \E us \in SeqsUpTo(UserDocs, MaxUsers), revealed \in BOOLEAN :
         input = [users |-> us, revealed |-> revealed]
    /\ output = NoOutput
    /\ store = "up"

ComputeMonthly ==
    /\ output = NoOutput
    /\ output' = MonthlyLeaderboard(build, input.users, input.revealed)
    /\ UNCHANGED <<build, clock, cache, disk, req, resp, served, inval, input, store>>

SpecMonthly == InitMonthly /\ [][ComputeMonthly]_vars

\* the key of the period before the current one
lastMonthKey == "2025-02-01"

\* maps holding records of the current period, of the one before, or of both
KeyedMaps(cur, last) ==
    {MapOf(<<>>),
     MapOf([k \in {monthKey} |-> cur]),
     MapOf([k \in {lastMonthKey} |-> last]),
     MapOf([k \in {monthKey, lastMonthKey} |-> IF k = monthKey THEN cur ELSE last])}

KeyedDocs ==
    [monthlyChallenges : KeyedMaps(Record(1, 1), Record(3, 5)),
     shadowChallenges : KeyedMaps(Record(2, 2), Record(1, 4))]

\* the computation of one monthly report over documents that carry records
\* of more than one period
InitMonthlyKeys ==
    /\ build \in Servers
    /\ clock = 0
    /\ disk = StartDisk("missing")
    /\ cache = [t \in Types |-> EmptyEntry]
    /\ req = EmptyBag
    /\ resp = NoResponse
    /\ served = 0
    /\ inval = [t \in Types |-> "no"]
    /\ \E us \in SeqsUpTo(KeyedDocs, MaxKeyedUsers), revealed \in BOOLEAN :
         input = [users |-> us, revealed |-> revealed]
    /\ output = NoOutput
    /\ store = "up"

SpecMonthlyKeys == InitMonthlyKeys /\ [][ComputeMonthly]_vars

(* ======================= the yearly computation ======================== *)
\* strings are sequences of one-character strings, so that startsWith,
\* toString and parseInt are computed and not assumed
DigitChars == <<"0", "1", "2", "3", "4", "5", "6", "7", "8", "9">>

IsDigit(c) == \E d \in 1..10 : DigitChars[d] = c

DigitValue(c) == (CHOOSE d \in 1..10 : DigitChars[d] = c) - 1

\* parseInt of a string without digits in front
NaN == -1

\* Number.prototype.toString of a year (a natural number, or NaN)
RECURSIVE toString(_)
toString(n) ==
    IF n = NaN THEN <<"N", "a", "N">>
    ELSE IF n < 10 THEN <<DigitChars[n + 1]>>
    ELSE toString(n \div 10) \o <<DigitChars[(n % 10) + 1]>>

\* parseInt: the digits in front of the string, NaN when there are none
RECURSIVE ParseDigits(_, _)
ParseDigits(str, acc) ==
    IF str = <<>> \/ ~IsDigit(Head(str)) THEN acc
    ELSE ParseDigits(Tail(str), 10 * acc + DigitValue(Head(str)))

ParseInt(str) ==
    IF str = <<>> \/ ~IsDigit(Head(str)) THEN NaN ELSE ParseDigits(str, 0)

\* String.prototype.padStart(n, "0")
RECURSIVE PadStart(_, _)
PadStart(str, n) == IF Len(str) >= n THEN str ELSE PadStart(<<"0">> \o str, n)

\* String.prototype.startsWith
StartsWith(str, prefix) ==
    /\ Len(prefix) <= Len(str)
    /\ SubSeq(str, 1, Len(prefix)) = prefix

\* User.formatDateKey of the first day of month m of year y:
\* date.toISOString().split('T')[0]
formatDateKey(y, m) ==
    PadStart(toString(y), 4) \o <<"-">> \o PadStart(toString(m), 2) \o <<"-", "0", "1">>

\* new Date().getFullYear()
ThisYear == 2025

\* the period keys of the bounded store: one of last year, one of this year
LastDecember == formatDateKey(ThisYear - 1, 12)
ThisJanuary == formatDateKey(ThisYear, 1)

\* a map with a progress for each of its keys
Progress(f) == MapOf([k \in DOMAIN f |-> Record(f[k], 0)])

YearlyMonthlyMaps ==
    { Progress(<<>>),
      Progress([k \in {ThisJanuary} |-> 1]),
      Progress([k \in {ThisJanuary} |-> 3]),
      Progress([k \in {LastDecember} |-> 2]),
      Progress([k \in {LastDecember, ThisJanuary} |-> IF k = ThisJanuary THEN 3 ELSE 1]) }

YearlyShadowMaps ==
    { Progress(<<>>),
      Progress([k \in {ThisJanuary} |-> 2]),
      Progress([k \in {LastDecember} |-> 1]) }

\* communityAwards: the year of awardedAt and the points
AwardLists == {<<>>, <<[year |-> ThisYear, points |-> 1]>>}

YearlyDocs ==
    [monthlyChallenges : YearlyMonthlyMaps,
     shadowChallenges : YearlyShadowMaps,
     communityAwards : AwardLists]

\* req.query.year: absent, or the string given
NoYear == <<>>
YearQueries ==
    {NoYear, toString(ThisYear), toString(ThisYear - 1), <<"2", "0", "2">>}

\* const currentYear = req.query.year ? parseInt(req.query.year)
\*                                    : new Date().getFullYear()
currentYear(query) == IF query # NoYear THEN ParseInt(query) ELSE ThisYear

RECURSIVE SumOver(_, _)
SumOver(f, S) ==
    IF S = {} THEN 0
    ELSE LET k == CHOOSE x \in S : TRUE IN f[k] + SumOver(f, S \ {k})

\* if (key.startsWith(currentYear.toString()))
InYear(key, year) == StartsWith(key, toString(year))

\* the keys of map m the loop counts for the year, and what it adds up
Counted(m, year) == {k \in DOMAIN m.entries : InYear(k, year)}

Points(m, year) ==
    SumOver([k \in DOMAIN m.entries |-> m.entries[k].progress], Counted(m, year))

Tally(m, year, p) ==
    Cardinality({k \in Counted(m, year) : m.entries[k].progress = p})

\* getCommunityPointsForYear: the awards whose awardedAt.getFullYear() is year
communityPoints(user, year) ==
    SumOver([j \in 1..Len(user.communityAwards) |-> user.communityAwards[j].points],
            {j \in 1..Len(user.communityAwards) : user.communityAwards[j].year = year})

\* the entry computed for the user at position i
YearlyEntry(user, i, year) ==
    [username |-> i,
     yearlyPoints |-> Points(user.monthlyChallenges, year)
                      + Points(user.shadowChallenges, year)
                      + communityPoints(user, year),
     mastery |-> Tally(user.monthlyChallenges, year, 3),
     beaten |-> Tally(user.monthlyChallenges, year, 2),
     participation |-> Tally(user.monthlyChallenges, year, 1),
     shadowBeaten |-> Tally(user.shadowChallenges, year, 2),
     shadowParticipation |-> Tally(user.shadowChallenges, year, 1),
     rank |-> 0]

\* one entry per user, those without points left out (filter in part_001,
\* continue in part_000)
RECURSIVE YearlyCollect(_, _, _)
YearlyCollect(users, i, year) ==
    IF i > Len(users) THEN <<>>
    ELSE LET e == YearlyEntry(users[i], i, year)
             rest == YearlyCollect(users, i + 1, year)
         IN  IF e.yearlyPoints > 0 THEN <<e>> \o rest ELSE rest

\* leaderboard.sort((a, b) => b.yearlyPoints - a.yearlyPoints), stable
RECURSIVE YearlyInsert(_, _)
YearlyInsert(e, sorted) ==
    IF sorted = <<>> THEN <<e>>
    ELSE IF Head(sorted).yearlyPoints - e.yearlyPoints < 0 THEN <<e>> \o sorted
    ELSE <<Head(sorted)>> \o YearlyInsert(e, Tail(sorted))

RECURSIVE YearlySort(_)
YearlySort(board) ==
    IF board = <<>> THEN <<>>
    ELSE YearlyInsert(board[Len(board)], YearlySort(SubSeq(board, 1, Len(board) - 1)))

\* every entry given its position, a tie or not
YearlyRank_ByIndex(board, i, lastPoints, lastRank) ==
    [j \in 1..Len(board) |-> [board[j] EXCEPT !.rank = j]]

\* the ranking map: the rank of the previous entry when the points are the
\* same, else the 1-based position
RECURSIVE YearlyRank(_, _, _, _)
YearlyRank(board, i, lastPoints, lastRank) ==
    IF i > Len(board) THEN board
    ELSE IF board[i].yearlyPoints = lastPoints
    THEN YearlyRank([board EXCEPT ![i].rank = lastRank], i + 1, lastPoints, lastRank)
    ELSE YearlyRank([board EXCEPT ![i].rank = i], i + 1, board[i].yearlyPoints, i)

\* from the year of the request to the data of the response
YearlyLeaderboard(users, query) ==
    LET year == currentYear(query)
    IN  [status |-> 200,
         year |-> year,
         leaderboard |-> YearlyRank(YearlySort(YearlyCollect(users, 1, year)), 1, -1, 0)]

\* the computation of one yearly report: the documents User.find resolved to
\* and the year of the query
InitYearly ==
    /\ build \in Servers
    /\ clock = 0
    /\ disk = StartDisk("missing")
    /\ cache = [t \in Types |-> EmptyEntry]
    /\ req = EmptyBag
    /\ resp = NoResponse
    /\ served = 0
    /\ inval = [t \in Types |-> "no"]
    /\ \E us \in SeqsUpTo(YearlyDocs, MaxYearUsers), query \in YearQueries :
         input = [users |-> us, year |-> query]
    /\ output = NoOutput
    /\ store = "up"

ComputeYearly ==
    /\ output = NoOutput
    /\ output' = YearlyLeaderboard(input.users, input.year)
    /\ UNCHANGED <<build, clock, cache, disk, req, resp, served, inval, input, store>>

SpecYearly == InitYearly /\ [][ComputeYearly]_vars

(* ================== the yearly route and its one entry ================= *)
\* the data object of the yearly handler, as far as the year goes
YearPayload(year, now) == [kind |-> "yearly", stamp |-> now, year |-> year]

\* the queries the bounded callers send: no year, this year, last year
AskedYears == {NoYear, toString(ThisYear), toString(ThisYear - 1)}

\* a yearly handler suspended at an await, with the currentYear it parsed
YearInFlight(year, at) ==
    [pc |-> at, type |-> "yearly", forced |-> FALSE, year |-> year]

\* the request the response of the step answers
Asked(query) == [kind |-> "yearly", year |-> query]

\* the server of part_001 once it listens: the yearly entry empty, or
\* rehydrated from the snapshot of a report for this year
InitYearCache ==
    /\ build = "part_001"
    /\ clock = 0
    /\ \E d \in {"missing", "ok"} :
         /\ disk = [StartDisk("missing") EXCEPT !["yearly"] =
                      IF d = "ok" THEN File(YearPayload(ThisYear, 0)) ELSE NoFile]
         /\ cache = [[t \in Types |-> EmptyEntry] EXCEPT !["yearly"] =
                       IF d = "ok"
                       THEN [data |-> YearPayload(ThisYear, 0), lastUpdated |-> 0]
                       ELSE EmptyEntry]
    /\ req = EmptyBag
    /\ resp = NoResponse
    /\ served = 0
    /\ inval = [t \in Types |-> "no"]
    /\ input = NoInput
    /\ output = NoOutput
    /\ store = "up"

\* the middleware and the handler up to its first await: the cache check,
\* then const currentYear = req.query.year ? parseInt(...) : getFullYear()
YearlyAsk(key, query) ==
    /\ served < MaxServed
    /\ served' = served + 1
    /\ BagCardinality(req) < MaxReq
    /\ IF ~apiKeyAuth(key)
       THEN /\ resp' = Response("yearly", FALSE, 401, NullData, "none")
            /\ input' = Asked(query)
            /\ req' = req
       ELSE IF IsFresh(cache["yearly"], "yearly", Now)
       THEN /\ resp' = Response("yearly", FALSE, 200, cache["yearly"].data, "none")
            /\ input' = Asked(query)
            /\ req' = req
       ELSE /\ req' = req (+) One(YearInFlight(currentYear(query), "findUsers"))
            /\ resp' = NoResponse
            /\ input' = input
    /\ UNCHANGED <<output, store, build, clock, cache, disk, inval>>

\* await User.find({})
YearlyUsersOf(year, ok) ==
    LET h == YearInFlight(year, "findUsers") IN
    /\ BagIn(h, req)
    /\ IF ~ok
       THEN /\ req' = req (-) One(h)
            /\ resp' = Response("yearly", FALSE, 500, NullData, "store")
            /\ input' = [kind |-> "yearly", year |-> toString(year)]
       ELSE /\ req' = Resume(h, "findChallenges")
            /\ resp' = NoResponse
            /\ input' = input
    /\ UNCHANGED <<output, store, build, clock, cache, disk, served, inval>>

\* await Challenge.find(...), then data = {..., year: currentYear, ...}, put,
\* save, res.json(data)
YearlyChallengesOf(year, ok, diskOk) ==
    LET h == YearInFlight(year, "findChallenges")
        data == YearPayload(year, Now)
    IN  /\ BagIn(h, req)
        /\ req' = req (-) One(h)
        /\ input' = [kind |-> "yearly", year |-> toString(year)]
        /\ IF ~ok
           THEN /\ resp' = Response("yearly", FALSE, 500, NullData, "store")
                /\ UNCHANGED <<cache, disk>>
           ELSE /\ cache' = Put(cache, "yearly", data, Now)
                /\ disk' = IF diskOk THEN WriteFile(disk, "yearly", data) ELSE disk
                /\ resp' = IF diskOk THEN Response("yearly", FALSE, 200, data, "none")
                           ELSE Response("yearly", FALSE, 500, NullData, "disk")
        /\ UNCHANGED <<output, store, build, clock, served, inval>>

NextYearCache ==
    \/ \E key \in Keys, query \in AskedYears : YearlyAsk(key, query)
    \/ \E year \in {ThisYear, ThisYear - 1}, ok \in BOOLEAN : YearlyUsersOf(year, ok)
    \/ \E year \in {ThisYear, ThisYear - 1}, ok, diskOk \in BOOLEAN :
         YearlyChallengesOf(year, ok, diskOk)
    \/ Tick

SpecYearCache == InitYearCache /\ [][NextYearCache]_vars

(* ===================== the nominations computation ===================== *)
\* new Date().getMonth() of the reference instant (0-based: March)
ThisMonth == 2

\* nom.nominatedAt, as far as the filter reads it
At(y, m) == [year |-> y, month |-> m]

Games == {"g1", "g2"}

\* the nominations of the bounded store: of this month, of the same month a
\* year ago, of last month
Noms ==
    { [gameId |-> "g1", nominatedAt |-> At(ThisYear, ThisMonth)],
      [gameId |-> "g2", nominatedAt |-> At(ThisYear, ThisMonth)],
      [gameId |-> "g1", nominatedAt |-> At(ThisYear - 1, ThisMonth)],
      [gameId |-> "g1", nominatedAt |-> At(ThisYear, ThisMonth - 1)] }

\* user.nominations: an array, or not there
NoList == [kind |-> "undefined", items |-> <<>>]
ListOf(q) == [kind |-> "array", items |-> q]

\* a user document with at most k nominations
NomDocs(k) == {NoList} \cup {ListOf(q) : q \in SeqsUpTo(Noms, k)}

\* what User.find can resolve to: at most u documents with at most k
\* nominations between them
RECURSIVE NomStores(_, _)
NomStores(u, k) ==
    IF u = 0 THEN {<<>>}
    ELSE {<<>>} \cup
         UNION {{<<d>> \o rest : rest \in NomStores(u - 1, k - Len(d.items))} :
                  d \in NomDocs(k)}

\* user.nominations.filter(...) throws on a document without the array;
\* part_000 reads (user.nominations || [])
NomThrows(b, user) == b = "part_001" /\ user.kind # "array"

\* the year left out of the comparison
IsCurrent_MonthOnly(nom) == nom.nominatedAt.month = ThisMonth

\* nomMonth === currentMonth && nomYear === currentYear
IsCurrent(nom) ==
    /\ nom.nominatedAt.month = ThisMonth
    /\ nom.nominatedAt.year = ThisYear

\* Array.prototype.filter
RECURSIVE Filter(_)
Filter(q) ==
    IF q = <<>> THEN <<>>
    ELSE IF IsCurrent(Head(q)) THEN <<Head(q)>> \o Filter(Tail(q))
    ELSE Filter(Tail(q))

\* nominations.push({username, gameId, ..., nominatedAt}) for each current
\* nomination of each user, in the order of the documents
RECURSIVE Flat(_, _)
Flat(users, i) ==
    IF i > Len(users) THEN <<>>
    ELSE LET kept == Filter(users[i].items)
         IN  [j \in 1..Len(kept) |->
                [username |-> i, gameId |-> kept[j].gameId,
                 nominatedAt |-> kept[j].nominatedAt]]
             \o Flat(users, i + 1)

\* the position of the game in the Map, 0 when it has no entry yet
IndexOf(games, id) ==
    IF \E k \in 1..Len(games) : games[k].gameId = id
    THEN CHOOSE k \in 1..Len(games) : games[k].gameId = id
    ELSE 0

Includes(q, x) == \E k \in 1..Len(q) : q[k] = x

\* if (!nominationsByGame.has(id)) set(id, {count: 0, nominatedBy: []});
\* gameNomination.count++; the user pushed unless already included
Tracked(games, nom) ==
    LET with == IF IndexOf(games, nom.gameId) = 0
                THEN Append(games, [gameId |-> nom.gameId, count |-> 0,
                                    nominatedBy |-> <<>>])
                ELSE games
        k == IndexOf(with, nom.gameId)
    IN  [with EXCEPT ![k] =
           [@ EXCEPT !.count = @ + 1,
                     !.nominatedBy = IF Includes(@, nom.username)
                                     THEN @ ELSE Append(@, nom.username)]]

\* the Map after the nominations flat[i..]: entries in insertion order
RECURSIVE Grouped(_, _, _)
Grouped(flat, i, games) ==
    IF i > Len(flat) THEN games
    ELSE Grouped(flat, i + 1, Tracked(games, flat[i]))

\* .sort((a, b) => b.count - a.count), stable
RECURSIVE GameInsert(_, _)
GameInsert(e, sorted) ==
    IF sorted = <<>> THEN <<e>>
    ELSE IF Head(sorted).count - e.count < 0 THEN <<e>> \o sorted
    ELSE <<Head(sorted)>> \o GameInsert(e, Tail(sorted))

RECURSIVE GameSort(_)
GameSort(games) ==
    IF games = <<>> THEN <<>>
    ELSE GameInsert(games[Len(games)], GameSort(SubSeq(games, 1, Len(games) - 1)))

\* from "const nominations = []" to the data of the response: 500 from the
\* handler's catch when the loop throws
NominationsReport(b, users) ==
    IF \E i \in 1..Len(users) : NomThrows(b, users[i])
    THEN [status |-> 500, nominations |-> <<>>, gamesList |-> <<>>]
    ELSE LET flat == Flat(users, 1)
         IN  [status |-> 200,
              nominations |-> flat,
              gamesList |-> GameSort(Grouped(flat, 1, <<>>))]

\* the computation of one nominations report over the documents User.find
\* resolved to
InitNominations ==
    /\ build \in Servers
    /\ clock = 0
    /\ disk = StartDisk("missing")
    /\ cache = [t \in Types |-> EmptyEntry]
    /\ req = EmptyBag
    /\ resp = NoResponse
    /\ served = 0
    /\ inval = [t \in Types |-> "no"]
    /\ \E us \in NomStores(MaxNomUsers, MaxNoms) : input = [users |-> us]
    /\ output = NoOutput
    /\ store = "up"

ComputeNominations ==
    /\ output = NoOutput
    /\ output' = NominationsReport(build, input.users)
    /\ UNCHANGED <<build, clock, cache, disk, req, resp, served, inval, input, store>>

SpecNominations == InitNominations /\ [][ComputeNominations]_vars

(* ================ the nominations handler for Carrd ==================== *)
\* gameId is a String of digits ("12345"); the model writes the number
GameIds == {3, 7}

\* nom.gameTitle: a name, or not there
NoTitle == ""
Titles == {NoTitle, "Alpha"}

CarrdNoms ==
    [gameId : GameIds, gameTitle : Titles,
     nominatedAt : {At(ThisYear, ThisMonth), At(ThisYear, ThisMonth - 1)}]

CarrdDocs(k) == {NoList} \cup {ListOf(q) : q \in SeqsUpTo(CarrdNoms, k)}

\* two user documents with at most k nominations between them
CarrdStores(k) ==
    UNION {{<<d1, d2>> : d2 \in CarrdDocs(k - Len(d1.items))} : d1 \in CarrdDocs(k)}

\* a property key of gameGroups: a string that is a canonical array index
\* (a gameId) or any other string (a title)
IndexKey(n) == [index |-> n, name |-> ""]
NameKey(x) == [index |-> -1, name |-> x]

\* const gameKey = nom.gameTitle || nom.gameId, where gameTitle is already
\* nom.gameTitle || nom.gameId from the map over the user's nominations
gameKey(nom) ==
    IF nom.gameTitle # NoTitle THEN NameKey(nom.gameTitle) ELSE IndexKey(nom.gameId)

\* allNominations.push(...getCurrentNominations(user).map(...)); a document
\* without the array is skipped
RECURSIVE AllNominations(_, _)
AllNominations(users, i) ==
    IF i > Len(users) THEN <<>>
    ELSE LET kept == IF users[i].kind = "array" THEN Filter(users[i].items) ELSE <<>>
         IN  [j \in 1..Len(kept) |->
                [gameId |-> kept[j].gameId, gameTitle |-> kept[j].gameTitle,
                 discordUsername |-> i]]
             \o AllNominations(users, i + 1)

KeyIndex(groups, key) ==
    IF \E k \in 1..Len(groups) : groups[k].title = key
    THEN CHOOSE k \in 1..Len(groups) : groups[k].title = key
    ELSE 0

\* if (!gameGroups[gameKey]) gameGroups[gameKey] = {...count: 0};
\* the user pushed and count++ unless already included
CarrdTracked(groups, nom) ==
    LET key == gameKey(nom)
        with == IF KeyIndex(groups, key) = 0
                THEN Append(groups, [title |-> key, gameId |-> nom.gameId,
                                     nominationCount |-> 0, nominatedBy |-> <<>>])
                ELSE groups
        k == KeyIndex(with, key)
    IN  IF Includes(with[k].nominatedBy, nom.discordUsername) THEN with
        ELSE [with EXCEPT ![k] =
                [@ EXCEPT !.nominationCount = @ + 1,
                          !.nominatedBy = Append(@, nom.discordUsername)]]

\* the groups in the order of their creation
RECURSIVE CarrdGrouped(_, _, _)
CarrdGrouped(all, i, groups) ==
    IF i > Len(all) THEN groups
    ELSE CarrdGrouped(all, i + 1, CarrdTracked(groups, all[i]))

\* the groups whose key is an array index, in ascending order of the index
RECURSIVE Ascending(_, _)
Ascending(groups, from) ==
    LET rest == {k \in 1..Len(groups) : groups[k].title.index >= from}
    IN  IF rest = {} THEN <<>>
        ELSE LET k == CHOOSE k \in rest :
                        \A j \in rest : groups[k].title.index <= groups[j].title.index
             IN  <<groups[k]>> \o Ascending(groups, groups[k].title.index + 1)

RECURSIVE Named(_)
Named(groups) ==
    IF groups = <<>> THEN <<>>
    ELSE IF Head(groups).title.index < 0 THEN <<Head(groups)>> \o Named(Tail(groups))
    ELSE Named(Tail(groups))

\* Object.values(gameGroups): integer-like keys first, ascending, then the
\* other keys in the order of their creation
ObjectValues(groups) == Ascending(groups, 0) \o Named(groups)

\* formattedNominations.sort((a, b) => b.nominationCount - a.nominationCount)
RECURSIVE CarrdInsert(_, _)
CarrdInsert(e, sorted) ==
    IF sorted = <<>> THEN <<e>>
    ELSE IF Head(sorted).nominationCount - e.nominationCount < 0 THEN <<e>> \o sorted
    ELSE <<Head(sorted)>> \o CarrdInsert(e, Tail(sorted))

RECURSIVE CarrdSort(_)
CarrdSort(q) ==
    IF q = <<>> THEN <<>>
    ELSE CarrdInsert(q[Len(q)], CarrdSort(SubSeq(q, 1, Len(q) - 1)))

\* api/nominations.js with ?format=carrd, from the users to the response
CarrdReport(users) ==
    LET all == AllNominations(users, 1)
        formatted == CarrdSort(ObjectValues(CarrdGrouped(all, 1, <<>>)))
    IN  [status |-> 200,
         totalNominations |-> Len(all),
         uniqueGames |-> Len(formatted),
         nominations |-> formatted]

InitCarrd ==
    /\ build = "serverless"
    /\ clock = 0
    /\ disk = StartDisk("missing")
    /\ cache = [t \in Types |-> EmptyEntry]
    /\ req = EmptyBag
    /\ resp = NoResponse
    /\ served = 0
    /\ inval = [t \in Types |-> "no"]
    /\ \E us \in CarrdStores(MaxCarrdNoms) : input = [users |-> us]
    /\ output = NoOutput
    /\ store = "up"

ComputeCarrd ==
    /\ output = NoOutput
    /\ output' = CarrdReport(input.users)
    /\ UNCHANGED <<build, clock, cache, disk, req, resp, served, inval, input, store>>

SpecCarrd == InitCarrd /\ [][ComputeCarrd]_vars

(* ========================== time remaining ============================= *)
HourMs == 1000 * 60 * 60
DayMs == 1000 * 60 * 60 * 24

Ended == <<"Challenge has ended">>

\* `${n} unit${n !== 1 ? 's' : ''}`: the digits of n, the unit, the plural
Count(n, unit) == toString(n) \o <<unit>> \o (IF n # 1 THEN <<"s">> ELSE <<>>)

\* the day part kept when no whole day remains
formatTimeRemaining_AlwaysDays(end, now) ==
    LET diffMs == end - now
        diffDays == diffMs \div DayMs
        diffHrs == (diffMs % DayMs) \div HourMs
    IN  IF diffMs <= 0 THEN Ended
        ELSE Count(diffDays, " day") \o <<" and ">> \o Count(diffHrs, " hour")

\* the text is a sequence of its pieces: digits, units, "s", " and "
formatTimeRemaining(end, now) ==
    LET diffMs == end - now
        diffDays == diffMs \div DayMs
        diffHrs == (diffMs % DayMs) \div HourMs
    IN  IF diffMs <= 0 THEN Ended
        ELSE IF diffDays = 0 THEN Count(diffHrs, " hour")
        ELSE Count(diffDays, " day") \o <<" and ">> \o Count(diffHrs, " hour")

\* the instants of the bounded clock: the half hours, and the millisecond
\* before each
Spans == {k * (HourMs \div 2) - e : k \in 0..MaxSpan, e \in {0, 1}}

\* one call: challengeEndDate and now, as milliseconds
InitTime ==
    /\ build \in {"part_001", "serverless"}
    /\ clock = 0
    /\ disk = StartDisk("missing")
    /\ cache = [t \in Types |-> EmptyEntry]
    /\ req = EmptyBag
    /\ resp = NoResponse
    /\ served = 0
    /\ inval = [t \in Types |-> "no"]
    /\ \E span \in Spans, now \in {HourMs, 2 * HourMs} :
         input = [end |-> HourMs + span, now |-> now]
    /\ output = NoOutput
    /\ store = "up"

ComputeTime ==
    /\ output = NoOutput
    /\ output' = [status |-> 200, text |-> formatTimeRemaining(input.end, input.now)]
    /\ UNCHANGED <<build, clock, cache, disk, req, resp, served, inval, input, store>>

SpecTime == InitTime /\ [][ComputeTime]_vars

(* ========================= the current period ========================== *)
\* Date in the server's local time, at whole seconds: the seconds since the
\* first instant of BaseYear; months are 0-based as in getMonth()
BaseYear == 2023

DaySec == 24 * 60 * 60

IsLeap(y) == (y % 4 = 0 /\ y % 100 # 0) \/ y % 400 = 0

DaysIn(y, m) ==
    IF m = 1 THEN (IF IsLeap(y) THEN 29 ELSE 28)
    ELSE IF m \in {3, 5, 8, 10} THEN 30 ELSE 31

RECURSIVE DaysBeforeMonth(_, _)
DaysBeforeMonth(y, m) ==
    IF m = 0 THEN 0 ELSE DaysBeforeMonth(y, m - 1) + DaysIn(y, m - 1)

RECURSIVE DaysBeforeYear(_)
DaysBeforeYear(y) ==
    IF y <= BaseYear THEN 0 ELSE DaysBeforeYear(y - 1) + DaysBeforeMonth(y - 1, 12)

\* new Date(year, month, day) followed by setHours: a month past 11 rolls
\* over into the next year, day 0 is the last day of the month before
DateOf(y, m, d, sec) ==
    LET yy == y + (m \div 12)
        mm == m % 12
    IN  (DaysBeforeYear(yy) + DaysBeforeMonth(yy, mm) + d - 1) * DaySec + sec

\* the calendar fields of an instant
RECURSIVE YearFrom(_, _)
YearFrom(days, y) ==
    IF days < DaysBeforeMonth(y, 12) THEN y
    ELSE YearFrom(days - DaysBeforeMonth(y, 12), y + 1)

getFullYear(t) == YearFrom(t \div DaySec, BaseYear)

RECURSIVE MonthFrom(_, _, _)
MonthFrom(days, y, m) ==
    IF days < DaysIn(y, m) THEN m ELSE MonthFrom(days - DaysIn(y, m), y, m + 1)

getMonth(t) ==
    MonthFrom((t \div DaySec) - DaysBeforeYear(getFullYear(t)), getFullYear(t), 0)

getDate(t) ==
    (t \div DaySec) - DaysBeforeYear(getFullYear(t))
    - DaysBeforeMonth(getFullYear(t), getMonth(t)) + 1

\* new Date(now.getFullYear(), now.getMonth(), 1)
currentMonthStart(now) == DateOf(getFullYear(now), getMonth(now), 1, 0)

\* the following month taken to be thirty days long
nextMonthStart_ThirtyDays(now) == currentMonthStart(now) + 30 * DaySec

\* new Date(now.getFullYear(), now.getMonth() + 1, 1)
nextMonthStart(now) == DateOf(getFullYear(now), getMonth(now) + 1, 1, 0)

\* challengeEndDate = new Date(nextMonthStart); setDate(getDate() - 1);
\* setHours(23, 59, 59): the milliseconds stay 0
challengeEndDate(now) ==
    LET next == nextMonthStart(now)
    IN  DateOf(getFullYear(next), getMonth(next), getDate(next) - 1,
               23 * 60 * 60 + 59 * 60 + 59)

\* Challenge.findOne({date: {$gte: currentMonthStart, $lt: nextMonthStart}})
\* over a store holding one challenge, or none
NoChallenge == -1

IsCurrentChallenge(date, now) ==
    /\ date # NoChallenge
    /\ date >= currentMonthStart(now)
    /\ date < nextMonthStart(now)

\* the instants a report is asked at: from 20 December 2023 on, at
\* midnight, at noon and in the last two seconds of each day
TimesOfDay == {0, 12 * 60 * 60, DaySec - 2, DaySec - 1}

ReferenceInstants ==
    {DateOf(BaseYear, 11, 20, 0) + d * DaySec + sec : d \in 0..MaxDays, sec \in TimesOfDay}

\* the dates a challenge is stored with: the first instants of January,
\* February and March 2024, the second before each, and a mid-month day
ChallengeDates ==
    {NoChallenge, DateOf(BaseYear + 1, 0, 15, 0)}
    \cup {DateOf(BaseYear + 1, m, 1, 0) - e : m \in 0..2, e \in {0, 1}}

\* the monthly handler from "const now = new Date()" to the 404 or past it,
\* with the bounds of its query
MonthlyPeriod(now, date) ==
    [status |-> IF IsCurrentChallenge(date, now) THEN 200 ELSE 404,
     start |-> currentMonthStart(now),
     end |-> nextMonthStart(now)]

InitPeriod ==
    /\ build = "part_001"
    /\ clock = 0
    /\ disk = StartDisk("missing")
    /\ cache = [t \in Types |-> EmptyEntry]
    /\ req = EmptyBag
    /\ resp = NoResponse
    /\ served = 0
    /\ inval = [t \in Types |-> "no"]
    /\ \E now \in ReferenceInstants, date \in ChallengeDates :
         input = [now |-> now, date |-> date]
    /\ output = NoOutput
    /\ store = "up"

ComputePeriod ==
    /\ output = NoOutput
    /\ output' = MonthlyPeriod(input.now, input.date)
    /\ UNCHANGED <<build, clock, cache, disk, req, resp, served, inval, input, store>>

SpecPeriod == InitPeriod /\ [][ComputePeriod]_vars

\* getTime() of the Date t in milliseconds, counted from the Date origin
Millis(t, origin) == (t - origin) * 1000

\* the days before the end of a month a report is asked in
LastDays == 20

\* the reference instants within LastDays days of the end of their month
ClosingInstants ==
    {now \in ReferenceInstants : nextMonthStart(now) - now <= LastDays * DaySec}

\* timeRemaining of the monthly response:
\* formatTimeRemaining(challengeEndDate, now)
timeRemaining(now) ==
    LET origin == currentMonthStart(now) + 8 * DaySec
    IN  formatTimeRemaining(Millis(challengeEndDate(now), origin), Millis(now, origin))

\* a monthly report computed while a challenge of the month is stored
InitEnding ==
    /\ build = "part_001"
    /\ clock = 0
    /\ disk = StartDisk("missing")
    /\ cache = [t \in Types |-> EmptyEntry]
    /\ req = EmptyBag
    /\ resp = NoResponse
    /\ served = 0
    /\ inval = [t \in Types |-> "no"]
    /\ \E now \in ClosingInstants : input = [now |-> now, date |-> currentMonthStart(now)]
    /\ output = NoOutput
    /\ store = "up"

ComputeEnding ==
    /\ output = NoOutput
    /\ output' = [status |-> IF IsCurrentChallenge(input.date, input.now) THEN 200 ELSE 404,
                  timeRemaining |-> timeRemaining(input.now)]
    /\ UNCHANGED <<build, clock, cache, disk, req, resp, served, inval, input, store>>

SpecEnding == InitEnding /\ [][ComputeEnding]_vars

(* ===================== properties of the monthly board ================= *)
Computed == output # NoOutput

\* the positions of the documents both of whose maps are there
WellFormed(users) ==
    {i \in 1..Len(users) : /\ users[i].monthlyChallenges.kind = "map"
                           /\ users[i].shadowChallenges.kind = "map"}

Listed(board) == {board[j].username : j \in 1..Len(board)}

\* C12: a monthly computation over documents some of which lack a challenge
\* map never aborts: it answers 200 and its board lists every well-formed
\* user who has points
C12_MalformedUserSkipped ==
    Computed
    => /\ output.status = 200
       /\ \A i \in WellFormed(input.users) :
            Entry(input.users[i], i, input.revealed).totalPoints > 0
            => i \in Listed(output.leaderboard)

\* the board of a computation of part_001 that came to its end
Board == output.leaderboard

BoardComputed == Computed /\ build = "part_001" /\ output.status = 200

\* C18: a computed monthly board is sorted by total points descending and,
\* among equal totals, by achieved count descending, and has no entry whose
\* total is 0
C18_SortedNoZero ==
    BoardComputed
    => /\ \A j \in 1..(Len(Board) - 1) :
            \/ Board[j].totalPoints > Board[j + 1].totalPoints
            \/ /\ Board[j].totalPoints = Board[j + 1].totalPoints
               /\ Board[j].achieved >= Board[j + 1].achieved
       /\ \A j \in 1..Len(Board) : Board[j].totalPoints # 0

\* three documents read, one of them without points and left out; the other
\* two tie on the total and the sort has put the later one first
C18_Witness ==
    /\ BoardComputed
    /\ Len(input.users) = 3
    /\ Len(Board) = 2
    /\ Board[1].totalPoints = Board[2].totalPoints
    /\ Board[1].achieved > Board[2].achieved
    /\ Board[1].username > Board[2].username

\* x compares strictly ahead of y in the order of the board
Ahead(x, y) ==
    \/ x.totalPoints > y.totalPoints
    \/ x.totalPoints = y.totalPoints /\ x.achieved > y.achieved

Tied(x, y) == x.totalPoints = y.totalPoints /\ x.achieved = y.achieved

\* C19: on a computed monthly board the first entry has rank 1, an entry has
\* the rank of its predecessor iff it ties with it on (total, achieved) and
\* otherwise its 1-based position, and every rank is 1 + the number of
\* entries strictly ahead
C19_RankByPosition ==
    BoardComputed
    => /\ Len(Board) > 0 => Board[1].rank = 1
       /\ \A j \in 2..Len(Board) :
            /\ Board[j].rank = Board[j - 1].rank <=> Tied(Board[j], Board[j - 1])
            /\ ~Tied(Board[j], Board[j - 1]) => Board[j].rank = j
       /\ \A j \in 1..Len(Board) :
            Board[j].rank
              = 1 + Cardinality({k \in 1..Len(Board) : Ahead(Board[k], Board[j])})

\* two entries tied at the top share rank 1 and the third has rank 3
C19_Witness ==
    /\ BoardComputed
    /\ Len(Board) = 3
    /\ Tied(Board[1], Board[2])
    /\ Board[1].rank = 1 /\ Board[2].rank = 1 /\ Board[3].rank = 3

(* ====================== properties of the yearly board ================= *)
\* the calendar year a period key lies in: its first four characters
YearOf(key) == ParseInt(SubSeq(key, 1, 4))

\* the records of map m whose period key lies in year y
Scoped(m, y) == {k \in DOMAIN m.entries : YearOf(k) = y}

ScopedPoints(m, y) ==
    SumOver([k \in DOMAIN m.entries |-> m.entries[k].progress], Scoped(m, y))

ScopedTally(m, y, p) == Cardinality({k \in Scoped(m, y) : m.entries[k].progress = p})

\* C20: whatever year is requested, the yearly points and the tier tallies
\* of every listed user come from the primary and secondary records whose
\* period key lies in that calendar year, and from no other record
C20_YearScoped ==
    Computed
    => \A j \in 1..Len(output.leaderboard) :
         LET e == output.leaderboard[j]
             user == input.users[e.username]
             y == output.year
         IN  /\ e.yearlyPoints = ScopedPoints(user.monthlyChallenges, y)
                                  + ScopedPoints(user.shadowChallenges, y)
                                  + communityPoints(user, y)
             /\ e.mastery = ScopedTally(user.monthlyChallenges, y, 3)
             /\ e.beaten = ScopedTally(user.monthlyChallenges, y, 2)
             /\ e.participation = ScopedTally(user.monthlyChallenges, y, 1)
             /\ e.shadowBeaten = ScopedTally(user.shadowChallenges, y, 2)
             /\ e.shadowParticipation = ScopedTally(user.shadowChallenges, y, 1)

\* what the stored records and awards of year y give the user
StoredTotal(user, y) ==
    ScopedPoints(user.monthlyChallenges, y)
    + ScopedPoints(user.shadowChallenges, y)
    + communityPoints(user, y)

\* C22: the yearly board of part_001 lists exactly the users whose stored
\* in-year primary, secondary and award points add up to more than 0, each
\* with that sum as the total (a mastery adds its stored 3, not the 7 of
\* the point table)
C22_YearlyTotalVerbatim ==
    (Computed /\ build = "part_001")
    => \A i \in 1..Len(input.users) :
         LET total == StoredTotal(input.users[i], output.year)
             listed == {j \in 1..Len(output.leaderboard) :
                          output.leaderboard[j].username = i}
         IN  IF total > 0
             THEN \E j \in listed : output.leaderboard[j].yearlyPoints = total
             ELSE listed = {}

YearBoard == output.leaderboard

Reported == Computed /\ build = "part_001" /\ output.status = 200

\* the users with at least one nomination of this month for the game
Nominators(users, id) ==
    {i \in 1..Len(users) :
       \E j \in 1..Len(users[i].items) :
          /\ users[i].items[j].gameId = id
          /\ users[i].items[j].nominatedAt = At(ThisYear, ThisMonth)}

\* C21: in a nominations report the popularity count of every game is the
\* number of distinct users with a nomination of this month for it
C21_CountIsDistinctUsers ==
    Reported
    => \A k \in 1..Len(output.gamesList) :
         output.gamesList[k].count
           = Cardinality(Nominators(input.users, output.gamesList[k].gameId))

\* the nominations of user i for game id made in the month and year of the
\* reference instant, as positions in the document
Kept(users, i, id) ==
    {j \in 1..Len(users[i].items) :
       /\ users[i].items[j].gameId = id
       /\ users[i].items[j].nominatedAt = At(ThisYear, ThisMonth)}

\* the entries of the flat list for user i and game id
Entries(flat, i, id) ==
    {k \in 1..Len(flat) : flat[k].username = i /\ flat[k].gameId = id}

NoDuplicates(q) == \A j, k \in 1..Len(q) : q[j] = q[k] => j = k

\* C24: a nominations report keeps exactly the nominations made in the
\* calendar month and year of the reference instant: the flat list has one
\* entry for each of them and no other, and the games listed are those
\* with such a nomination, each with every nominating user exactly once
C24_CurrentNominationsKept ==
    Reported
    => /\ \A k \in 1..Len(output.nominations) :
            output.nominations[k].nominatedAt = At(ThisYear, ThisMonth)
       /\ \A i \in 1..Len(input.users), id \in Games :
            Cardinality(Entries(output.nominations, i, id))
              = Cardinality(Kept(input.users, i, id))
       /\ \A id \in Games :
            Nominators(input.users, id) # {}
            <=> \E k \in 1..Len(output.gamesList) : output.gamesList[k].gameId = id
       /\ \A k \in 1..Len(output.gamesList) :
            LET game == output.gamesList[k]
            IN  /\ NoDuplicates(game.nominatedBy)
                /\ {game.nominatedBy[j] : j \in 1..Len(game.nominatedBy)}
                     = Nominators(input.users, game.gameId)
                /\ \A j \in 1..Len(output.gamesList) :
                     output.gamesList[j].gameId = game.gameId => j = k

\* the first user nominated one game twice this month, the second only a
\* year ago: two flat entries, one game, one nominator
C24_Witness ==
    /\ Reported
    /\ Len(input.users) = 2
    /\ Len(input.users[2].items) = 1
    /\ input.users[2].items[1].nominatedAt = At(ThisYear - 1, ThisMonth)
    /\ Len(output.nominations) = 2
    /\ Len(output.gamesList) = 1
    /\ output.gamesList[1].nominatedBy = <<1>>

(* ===================== properties of time remaining ==================== *)
\* reading the text back: where a piece stands, the number in front of a
\* unit, whether the unit is followed by the plural
Has(text, piece) == \E k \in 1..Len(text) : text[k] = piece

Where(text, piece) == CHOOSE k \in 1..Len(text) : text[k] = piece

\* the digits that end right before the unit, read as a number
RECURSIVE DigitsBefore(_, _)
DigitsBefore(text, k) ==
    IF k = 0 \/ ~IsDigit(text[k]) THEN <<>>
    ELSE Append(DigitsBefore(text, k - 1), text[k])

NumberOf(text, unit) == ParseInt(DigitsBefore(text, Where(text, unit) - 1))

Plural(text, unit) ==
    LET k == Where(text, unit) IN k < Len(text) /\ text[k + 1] = "s"

Remaining == input.end - input.now

\* C25: the text is the ended sentinel iff end <= now; otherwise it gives
\* floor(diff / 24h) days and floor((diff mod 24h) / 1h) hours, each unit
\* in the singular exactly when its count is 1, and has no day part
\* exactly when fewer than 24 hours remain
C25_TimeRemaining ==
    Computed
    => LET text == output.text
       IN  /\ text = Ended <=> input.end <= input.now
           /\ input.end > input.now
              => /\ Has(text, " hour")
                 /\ NumberOf(text, " hour") = (Remaining % DayMs) \div HourMs
                 /\ Plural(text, " hour") <=> NumberOf(text, " hour") # 1
                 /\ Has(text, " day") <=> Remaining >= DayMs
                 /\ Has(text, " day")
                    => /\ NumberOf(text, " day") = Remaining \div DayMs
                       /\ Plural(text, " day") <=> NumberOf(text, " day") # 1
                       /\ Where(text, " day") < Where(text, " hour")

\* one millisecond short of 26 hours remains: "1 day and 1 hour"
C25_Witness ==
    /\ Computed
    /\ Remaining = 26 * HourMs - 1
    /\ output.text = <<"1", " day", " and ", "1", " hour">>

(* ===================== properties of the health route ================== *)
\* C26: the health route answers 200 whatever key the request carries, in
\* every state of the cache and of the suspended handlers, and its step
\* leaves the cache, the snapshots and the store queries in flight as they
\* were; its answer is made of the clock alone
C26_HealthTouchesNothing ==
    /\ [](build \in Servers => \A key \in Keys : ENABLED Health(key))
    /\ [][\A key \in Keys :
            Health(key)
            => /\ resp'.status = 200
               /\ resp'.body = HealthBody(Now)
               /\ cache' = cache
               /\ disk' = disk
               /\ req' = req]_vars

\* answered while one entry is filled, another is empty and a handler is
\* waiting for the store
C26_Witness ==
    /\ resp.route = "health"
    /\ resp.status = 200
    /\ ~IsEmpty(cache["monthly"])
    /\ IsEmpty(cache["yearly"])
    /\ req # EmptyBag

(* ==================== properties of forced refreshes =================== *)
\* a handler of type t with forceRefresh ends on a rejected store query or on
\* "no current challenge"
ForcedFailure(t) ==
    /\ Completed(t)
    /\ resp'.route = t
    /\ resp'.refresh
    /\ resp'.fault \in {"store", "nochallenge"}

\* C27: when the recomputation of a request with refresh=true fails (the
\* store rejects, or there is no current challenge), the entry of its type
\* is EMPTY afterwards
C27_FailedRefreshLeavesEmpty ==
    [][\A t \in Types : ForcedFailure(t) => IsEmpty(cache'[t])]_vars

(* ================== properties of independent reports ================== *)
\* a step of a report request of type t: the middleware and the first lines
\* of its handler, or its handler resuming after an await
ReportStep(t) ==
    \/ resp'.route = t /\ served' = served + 1
    \/ \E h \in BagToSet(req) \cup BagToSet(req') :
         h.type = t /\ CopiesIn(h, req) # CopiesIn(h, req')

\* C28: in the server of part_001, no step of a report request of one type
\* (answered from the cache, going to the store, forced, rejected or failing)
\* changes the cache entry or the snapshot of another type
C28_TypesIndependent ==
    [][\A t \in Types :
         (build = "part_001" /\ ReportStep(t))
         => \A u \in Types \ {t} : cache'[u] = cache[u] /\ disk'[u] = disk[u]]_vars

\* monthly was recomputed and saved on a forced refresh after the start;
\* yearly and nominations still hold the payloads and files of the start
C28_Witness ==
    /\ build = "part_001"
    /\ resp.route = "monthly" /\ resp.status = 200 /\ resp.refresh
    /\ Now > 0
    /\ cache["monthly"] = [data |-> Payload("monthly", Now), lastUpdated |-> Now]
    /\ disk["monthly"] = File(Payload("monthly", Now))
    /\ \A u \in {"yearly", "nominations"} :
         /\ cache[u] = [data |-> Payload(u, 0), lastUpdated |-> 0]
         /\ disk[u] = File(Payload(u, 0))

(* ==================== properties of the entry lifecycle ================ *)
\* a handler of type t ends its recomputation with the answer 200
Recomputed(t) == Completed(t) /\ resp'.route = t /\ resp'.status = 200

\* the entry of type t goes from holding something to EMPTY
Emptied(t) == ~IsEmpty(cache[t]) /\ IsEmpty(cache'[t])

\* C29: every recomputation that answers 200 leaves its entry with the
\* payload it answers and the instant of the put, hence FRESH; and an entry
\* goes back to EMPTY only in the step of an accepted admin invalidation or
\* in the step that receives a request with refresh=true for its type
C29_EntryLifecycle ==
    [][\A t \in Types :
         /\ Recomputed(t)
            => /\ cache'[t] = [data |-> resp'.body, lastUpdated |-> Now]
               /\ IsFresh(cache'[t], t, Now)
         /\ Emptied(t)
            => \/ AdminStep /\ resp'.status = 200
               \/ ForcedMiss(t)]_vars

\* nominations, already filled at the start, was recomputed and overwritten
\* later on, while monthly is EMPTY after an invalidation of the leaderboards
C29_Witness ==
    /\ resp.route = "nominations"
    /\ resp.status = 200
    /\ Now > 0
    /\ cache["nominations"] = [data |-> Payload("nominations", Now), lastUpdated |-> Now]
    /\ IsEmpty(cache["monthly"])
    /\ IsEmpty(cache["yearly"])

(* ==================== properties of the durable snapshot =============== *)
\* C30: in the server of part_001, after every recomputation that answers
\* 200 the snapshot of its type is the payload just put in the cache, with
\* the lastUpdated stamp of that payload; and a snapshot changes only in the
\* step in which a handler of its type puts that payload
C30_SnapshotFollowsPut ==
    [][\A t \in Types :
         build = "part_001"
         => /\ Recomputed(t)
               => /\ disk'[t] = File(cache'[t].data)
                  /\ disk'[t].data = resp'.body
                  /\ ParseDate(disk'[t].data) = Now
            /\ disk'[t] # disk[t]
               => /\ Completed(t)
                  /\ disk'[t] = File(cache'[t].data)
                  /\ cache'[t].lastUpdated = Now]_vars

\* yearly was recomputed after the start and its file replaced by the new
\* payload
C30_Witness ==
    /\ build = "part_001"
    /\ resp.route = "yearly"
    /\ resp.status = 200
    /\ Now > 0
    /\ resp.body = Payload("yearly", Now)
    /\ cache["yearly"].data = resp.body
    /\ disk["yearly"] = File(resp.body)

(* ==================== properties of the monthly points ================= *)
\* the progress stored in map m under the key of the current period, 0 when
\* there is no such record
StoredNow(m) ==
    IF monthKey \in DOMAIN m.entries THEN m.entries[monthKey].progress ELSE 0

\* C31: on a computed monthly board every entry has the primary points
\* stored under the current period key; its secondary points are 0 while
\* the shadow challenge is not revealed and the secondary value stored under
\* the same key once it is; its total is primary + secondary; a user is
\* listed iff that total is not 0; records of other keys change nothing
C31_SecondaryOnlyWhenRevealed ==
    (Computed /\ output.status = 200)
    => /\ \A j \in 1..Len(Board) :
            LET e == Board[j]
                user == input.users[e.username]
            IN  /\ e.monthlyPoints = StoredNow(user.monthlyChallenges)
                /\ ~input.revealed => e.shadowPoints = 0
                /\ input.revealed => e.shadowPoints = StoredNow(user.shadowChallenges)
                /\ e.totalPoints = e.monthlyPoints + e.shadowPoints
       /\ \A i \in 1..Len(input.users) :
            i \in Listed(Board)
            <=> StoredNow(input.users[i].monthlyChallenges)
                + (IF input.revealed THEN StoredNow(input.users[i].shadowChallenges) ELSE 0)
                # 0

\* the shadow challenge is hidden: a user with a primary and a secondary
\* record of this period and records of the period before is listed with
\* the primary points alone, and a user with secondary points only is not
\* listed
C31_Witness ==
    /\ Computed
    /\ ~input.revealed
    /\ Len(input.users) = 2
    /\ DOMAIN input.users[1].monthlyChallenges.entries = {monthKey, lastMonthKey}
    /\ DOMAIN input.users[1].shadowChallenges.entries = {monthKey, lastMonthKey}
    /\ DOMAIN input.users[2].monthlyChallenges.entries = {lastMonthKey}
    /\ DOMAIN input.users[2].shadowChallenges.entries = {monthKey}
    /\ Len(Board) = 1
    /\ Board[1].username = 1
    /\ Board[1].totalPoints = 1
    /\ Board[1].shadowPoints = 0

(* ==================== properties of the yearly tallies ================= *)
\* C32: for every listed user of a yearly board, mastery, beaten and
\* participation are the numbers of primary records of the requested
\* calendar year with stored tier 3, 2 and 1, and shadowBeaten and
\* shadowParticipation the numbers of secondary records of that year with
\* tier 2 and 1; no tally counts a secondary record of tier 3
C32_TierTallies ==
    Computed
    => \A j \in 1..Len(YearBoard) :
         LET e == YearBoard[j]
             user == input.users[e.username]
             y == output.year
         IN  /\ <<e.mastery, e.beaten, e.participation>>
                  = <<ScopedTally(user.monthlyChallenges, y, 3),
                      ScopedTally(user.monthlyChallenges, y, 2),
                      ScopedTally(user.monthlyChallenges, y, 1)>>
             /\ <<e.shadowBeaten, e.shadowParticipation>>
                  = <<ScopedTally(user.shadowChallenges, y, 2),
                      ScopedTally(user.shadowChallenges, y, 1)>>
             /\ e.shadowBeaten + e.shadowParticipation
                  = Cardinality(Scoped(user.shadowChallenges, y))
                    - ScopedTally(user.shadowChallenges, y, 3)
                    - ScopedTally(user.shadowChallenges, y, 0)

(* ================== properties of the popularity order ================= *)
\* where game id is first met among the current nominations, 0 if nowhere
FirstMet(all, id) ==
    IF \E k \in 1..Len(all) : all[k].gameId = id
    THEN CHOOSE k \in 1..Len(all) :
           all[k].gameId = id /\ \A j \in 1..(k - 1) : all[j].gameId # id
    ELSE 0

\* C33: the popularity entries of the Carrd report are in descending order
\* of their count, entries with equal counts stand in the order in which
\* their games were first met, and there is exactly one entry for each
\* distinct gameId among the current nominations
C33_PopularityOrder ==
    Computed
    => LET pop == output.nominations
           all == AllNominations(input.users, 1)
       IN  /\ \A j \in 1..(Len(pop) - 1) :
                pop[j].nominationCount >= pop[j + 1].nominationCount
           /\ \A j, k \in 1..Len(pop) :
                (j < k /\ pop[j].nominationCount = pop[k].nominationCount)
                => FirstMet(all, pop[j].gameId) < FirstMet(all, pop[k].gameId)
           /\ \A j, k \in 1..Len(pop) : pop[j].gameId = pop[k].gameId => j = k
           /\ {pop[j].gameId : j \in 1..Len(pop)}
                = {all[k].gameId : k \in 1..Len(all)}

(* =================== properties of the current period ================== *)
\* t is the first instant of a calendar month
MonthBegins(t) == t % DaySec = 0 /\ getDate(t) = 1

\* C34: the window of a monthly computation runs from the first instant of
\* the month of the reference instant to the first instant of the month
\* after it (January of the next year after December) and contains the
\* reference instant; the window of the instant before its start ends at
\* its start and the window of its end starts at its end, so consecutive
\* windows neither overlap nor leave a gap; and the challenge is found iff
\* its date is at or after the start and before the end
C34_CurrentWindow ==
    Computed
    => LET now == input.now
           start == output.start
           end == output.end
       IN  /\ MonthBegins(start) /\ MonthBegins(end)
           /\ getMonth(start) = getMonth(now) /\ getFullYear(start) = getFullYear(now)
           /\ getMonth(end) = (getMonth(now) + 1) % 12
           /\ getFullYear(end) = getFullYear(now) + (IF getMonth(now) = 11 THEN 1 ELSE 0)
           /\ start <= now /\ now < end
           /\ currentMonthStart(end) = end
           /\ nextMonthStart(start - 1) = start
           /\ output.status = 200
              <=> (input.date # NoChallenge /\ start <= input.date /\ input.date < end)

\* asked in the last second of 31 December, with a challenge dated at
\* the first instant of January: the window ends at that instant and the
\* challenge is not current
C34_Witness ==
    /\ Computed
    /\ getMonth(input.now) = 11 /\ getDate(input.now) = 31
    /\ input.now = output.end - 1
    /\ input.date = output.end
    /\ getFullYear(output.end) = getFullYear(input.now) + 1
    /\ output.status = 404

(* =================== properties of the requested year ================== *)
\* C35: every yearly response with status 200 carries the year its request
\* asked for: the year of the query when there is one, this year otherwise
C35_ResponseYearIsAsked ==
    (resp.route = "yearly" /\ resp.status = 200)
    => resp.body.year = currentYear(input.year)

(* ===================== properties of failed requests =================== *)
\* C36: the step in which a report request of type t is answered with an
\* error status leaves the cache entry of t as it was
C36_ErrorLeavesEntry ==
    [][\A t \in Types :
         (resp'.route = t /\ resp'.status >= 400) => cache'[t] = cache[t]]_vars

(* ================ properties of restarts after invalidation ============ *)
\* C37: in the server of part_001 an invalidation leaves every snapshot as
\* it was; a restart fills each entry with the payload of its snapshot and
\* the stamp inside it, whatever was invalidated before; and a request that
\* is answered from the cache after an invalidation which no request has
\* followed (so a restart lies in between) gets the payload of the
\* snapshot, whose stamp is then younger than the threshold
C37_RestartUndoesInvalidation ==
    [][build = "part_001"
       => /\ (AdminStep \/ \E t \in Types : ForcedMiss(t)) => disk' = disk
          /\ Restart
             => \A t \in Types :
                  disk[t].state = "ok"
                  => cache'[t] = [data |-> disk[t].data,
                                  lastUpdated |-> ParseDate(disk[t].data)]
          /\ \A t \in Types :
               (inval[t] = "quiet" /\ AnsweredAtOnce(t))
               => /\ resp'.body = disk[t].data
                  /\ Now - ParseDate(disk[t].data) < FreshFor(t)]_vars

\* monthly was invalidated, no request has asked for it since, and the
\* entry again holds the payload of the snapshot, still fresh
C37_Witness ==
    /\ build = "part_001"
    /\ inval["monthly"] = "quiet"
    /\ disk["monthly"].state = "ok"
    /\ cache["monthly"] = [data |-> disk["monthly"].data,
                           lastUpdated |-> ParseDate(disk["monthly"].data)]
    /\ IsFresh(cache["monthly"], "monthly", Now)
    /\ Now > 0

(* ================= properties of rehydration per type ================== *)
\* C38: when the server has just started, every entry whose snapshot file
\* is there and parses holds the payload of that file, whatever the state
\* of the other two files
C38_RehydrationPerType ==
    (build \in Servers /\ served = 0 /\ req = EmptyBag)
    => \A t \in Types : disk[t].state = "ok" => cache[t].data = disk[t].data

(* ================= properties of the age after a start ================= *)
\* the entry of t was filled from its snapshot at the start
Rehydrated(t) == disk[t].state = "ok" /\ cache[t].data = disk[t].data

\* C39: in the server of part_001 the first request after a start that
\* finds its entry filled from the snapshot is answered from the cache,
\* with the payload of the snapshot and without a store query, iff the
\* lastUpdated stamp inside that payload is a date and is younger than the
\* threshold of the type at the instant of the request; otherwise it goes
\* to the store
C39_AgeFromSnapshotStamp ==
    [][\A t \in Types :
         (build = "part_001" /\ served = 0 /\ Arrived(t) /\ ~ForcedMiss(t)
            /\ Rehydrated(t))
         => LET stamp == ParseDate(disk[t].data)
                young == stamp # InvalidDate /\ Now - stamp < FreshFor(t)
            IN  /\ young => AnsweredAtOnce(t) /\ resp'.body = disk[t].data
                /\ ~young => Missed(t)]_vars

\* the process started after the snapshot was written; its first request
\* finds the yearly snapshot exactly as old as the threshold and goes to
\* the store, although the process itself is younger than that
C39_Witness ==
    /\ build = "part_001"
    /\ served = 1
    /\ Rehydrated("yearly")
    /\ ParseDate(disk["yearly"].data) = 0
    /\ Now = FreshFor("yearly")
    /\ BagIn(InFlight("yearly", FALSE, "findUsers"), req)

(* ================= properties of the time that remains ================= *)
\* C40: a monthly report computed at an instant of the current period, from
\* its start up to but not including the first instant of the next month,
\* does not say that the challenge has ended
C40_NotEndedInsidePeriod ==
    ( /\ Computed
      /\ output.status = 200
      /\ currentMonthStart(input.now) <= input.now
      /\ input.now < nextMonthStart(input.now) )
    => output.timeRemaining # Ended
====
